---- MODULE Spec2Model ----
(***************************************************************************)
(* A model of the nanobot-go dispatcher core: the message bus, the agent   *)
(* loop with its streaming tool-call reconstruction, the tool registry and *)
(* the session store.  Every operation is translated from the Go source;   *)
(* the comment before each definition names the function it models.        *)
(*                                                                         *)
(* Specifications:                                                         *)
(*   SpecBus     the message bus alone (publish / consume / close)         *)
(*   SpecStream  one ChatStream call feeding one streamHandler, followed   *)
(*               by the execution of the collected tool calls              *)
(*   SpecAgent   AgentLoop.Run as the only caller of ProcessMessage        *)
(*   SpecConc    AgentLoop.Run together with an HTTP handler goroutine     *)
(*               that calls ProcessDirect on the same agent                *)
(*   SpecCron    the cron Service: its API, its timer goroutines, the      *)
(*               cron engine and the job handler of the gateway            *)
(*   SpecCatalogue the cron Service's catalogue and jobs.json, with        *)
(*               writes that fail, over every kind of store file           *)
(*   SpecSession one Session per key receiving AddMessage calls            *)
(*   SpecTools   the file tools, exec and the message tool, one Execute at *)
(*               a time, with and without a sandbox root                   *)
(*   SpecChannels the Telegram, Discord and WhatsApp channels in front of  *)
(*               the bus, with the WhatsApp send path beside its read loop *)
(*   SpecShutdown SpecAgent with the cancellation of Run's context, under  *)
(*               weak fairness of Run's goroutine                          *)
(*   SpecJobID   AddJob with the ids generateJobID derives from the clock  *)
(*   SpecDirect  ProcessDirect called with a session key of its own        *)
(*   SpecClose   MessageBus.Close beside publishers, step by step under    *)
(*               the bus's RWMutex                                         *)
(*   SpecStop    the gateway's shutdown loop beside the goroutines of the  *)
(*               Telegram and Discord adapters                             *)
(*   SpecWs      the connections of the WebSocket server                   *)
(*   SpecSandbox the tools while the scheduler's job handler builds agent  *)
(*               loops of its own                                          *)
(***************************************************************************)
EXTENDS Integers, Sequences, FiniteSets, TLC

VARIABLES
    \* ---- bus.MessageBus
    inbound,        \* buffered channel b.inbound, oldest first
    outbound,       \* buffered channel b.outbound, oldest first
    closed,         \* b.closed
    capacity,       \* cap(b.inbound) = cap(b.outbound)
    lastPub,        \* history variable: the last publish call and what it returned
    lastCons,       \* history variable: the last consume call and what it returned
    \* ---- agent.AgentLoop and its callers
    cfgIterations,  \* agents.defaults.maxToolIterations of the loaded config
    maxIterations,  \* a.MaxIterations
    vary,           \* environment: iterations of a call with freely varying outcomes
    sessions,       \* session.Manager.sessions: key -> Session.Messages
    files,          \* <workspace>/.sessions/<key>.json: key -> stored messages
    pc,             \* per goroutine: position in Run / ProcessDirect / ProcessMessage
    msg,            \* per goroutine: the inbound record being processed
    iter,           \* per goroutine: loop counter i of ProcessMessage
    messages,       \* per goroutine: the local message list sent to the model
    content,        \* per goroutine: handler.GetContent() of the last stream
    toolCalls,      \* per goroutine: handler.GetToolCalls() of the last stream
    tcIdx,          \* per goroutine: position in the range over toolCalls
    finalContent,   \* per goroutine: finalContent
    err,            \* per goroutine: the error ProcessMessage returned ("" = nil)
    snap,           \* per goroutine: s.Messages as read by the running AddMessage
    ret,            \* per goroutine: what the last finished call returned / published
    nPublished,     \* history variable: inbound records handed to PublishInbound
    nDirect,        \* history variable: ProcessDirect calls made
    nStreams,       \* history variable, per goroutine: ChatStream calls of this record
    okCalls,        \* history variable, per session key: ProcessMessage calls returned nil error
    \* ---- providers.OpenAIProvider.ChatStream and agent.streamHandler
    sPhase,         \* "open" -> "ended" | "failed" -> "executed"
    nChunks,        \* chunks read so far
    builders,       \* buildersByIndex: index -> toolCallBuilder
    accumulatingCalls, \* h.accumulatingCalls: id -> ToolCall
    hToolCalls,     \* h.toolCalls
    hContent,       \* h.content
    events,         \* history variable: the handler callbacks in call order
    executed,       \* history variable: (name, args) pairs handed to tools.Execute
    \* ---- cron.Service, its goroutines and the handler wired by the gateway
    now,            \* the clock, in schedule units
    store,          \* the content of jobs.json
    heap,           \* the Job objects allocated so far: id -> Job
    jobs,           \* s.jobs: key -> id of the Job pointed to ("nil" for a nil pointer), or NilMap
    running,        \* s.running; stopChan is closed exactly while it is FALSE after a Start
    mu,             \* "free", or "Stop" while Stop holds s.mu in wg.Wait
    workers,        \* id -> position of the Every / Once goroutine of that job
    cronEntries,    \* id -> number of entries AddFunc registered in the cron engine
    cronOn,         \* the cron engine is started
    cronRuns,       \* id -> position of the goroutine the cron engine started for an entry
    crashed,        \* "" or the panic that ended the process
    cronRet,        \* history variable: the last Service call and what it returned
    invoked,        \* history variable: id -> handler invocations begun
    schedAt,        \* history variable: id -> clock values at which scheduleJob was called
    failedAdds,     \* history variable: ids of the AddJob calls that returned an error
    allSaved,       \* history variable: every save so far succeeded
    nStarts,        \* history variable: Start calls made
    appended,       \* history variable: key -> every turn handed to AddMessage, in order
    \* ---- tools: the sandbox root, the message tool's context, the last execution
    allowedDir,     \* the package variable allowedDir of tools: a path, or <<>> for ""
    toolCtx,        \* MessageTool.channel and MessageTool.chatID
    toolRun,        \* history variable: the last tool execution and what it did and returned
    \* ---- channels: configuration, the WhatsApp bridge connection, the handlers
    allowFrom,      \* the AllowFrom list of the channel configuration
    allowSelf,      \* WhatsAppConfig.AllowSelf
    waOutbound,     \* WhatsAppChannel.outbound: the remembered outbound records
    sending,        \* the SendMessage call between WriteMessage and rememberOutbound, if any
    wclock,         \* the wall clock of the channel process, in seconds
    written,        \* history variable: the outbounds WriteMessage handed to the bridge
    handled,        \* history variable: the last message handed to a channel's message handler
    \* ---- the context the gateway passes to Run
    ctxDone,        \* ctx.Done() is closed
    \* ---- cron: the clock generateJobID reads
    nano,           \* the last reading of time.Now().UnixNano()
    \* ---- agent: ProcessDirect
    directKey,      \* history variable: the sessionKey argument of the last ProcessDirect call
    \* ---- bus: publishers and Close calls, step by step
    pubPc,          \* publisher -> "idle", or "checked": holds b.mu.RLock, has seen closed = false
    closeWaiting,   \* Close calls waiting in b.mu.Lock()
    nCloses,        \* history variable: Close calls that returned
    busCrash,       \* "" or the panic that ended the process
    lastRaced,      \* history variable: a Close call was waiting when the last publish sent
    \* ---- channels: shutdown of the Telegram and Discord adapters
    gwStopped,      \* the adapters whose Stop the gateway's shutdown loop has returned from
    stopPc,         \* goroutine -> its position in the gateway's shutdown / in DiscordChannel.Stop
    tgPoll,         \* the position of TelegramChannel.pollUpdates
    tStopChan,      \* "open" or "closed": TelegramChannel.stopChan
    dStopChan,      \* "open" or "closed": DiscordChannel.stopChan
    dSession,       \* "open", "closed" or "nil": DiscordChannel.session
    stopCrash,      \* "" or the panic that ended the process
    \* ---- channels: the WebSocket server's connections
    wsPc,           \* connection -> the position of its handleWebSocket
    wsChat,         \* connection -> the chat id of its request
    wsOpen,         \* connection -> TRUE while neither end has closed it
    clients,        \* WebSocketChannel.clients: chat id -> connection, 0 for no entry
    \* ---- tools: the writes of the sandbox root
    dirWrites       \* history variable: the number of SetAllowedDir calls made so far

busVars == <<inbound, outbound, closed, capacity, lastPub, lastCons>>
agentVars == <<cfgIterations, maxIterations, vary, sessions, files, pc, msg, iter, messages, content,
               toolCalls, tcIdx, finalContent, err, snap, ret, nPublished, nDirect,
               nStreams, okCalls>>
streamVars == <<sPhase, nChunks, builders, accumulatingCalls, hToolCalls, hContent,
                events, executed>>
cronVars == <<now, store, heap, jobs, running, mu, workers, cronEntries, cronOn, cronRuns,
              crashed, cronRet, invoked, schedAt, failedAdds, allSaved, nStarts>>
auxVars == <<allowedDir, toolCtx, toolRun, allowFrom, allowSelf, waOutbound, sending,
             wclock, written, handled, ctxDone>>
closeVars == <<pubPc, closeWaiting, nCloses, busCrash, lastRaced>>
stopVars == <<gwStopped, stopPc, tgPoll, tStopChan, dStopChan, dSession, stopCrash>>
wsVars == <<wsPc, wsChat, wsOpen, clients>>
restVars == <<wsVars, dirWrites>>
tailVars == <<closeVars, stopVars, restVars>>
moreVars == <<nano, directKey, tailVars>>
vars == <<busVars, agentVars, streamVars, cronVars, appended, auxVars, moreVars>>

(***************************************************************************)
(* Bounds of the model.                                                    *)
(***************************************************************************)
\* bufferSize handed to NewMessageBus
BufferSize == 2
\* inbound records the channel adapters produce
MaxInbound == 2
\* ProcessDirect calls the HTTP handler makes
MaxDirect == 1
\* iterations of one ProcessMessage call in which the model's answer and the
\* executor's outcome range over all modelled values; later iterations repeat
\* one tool call (runaway tool-calling), answer without tool calls, or fail
VaryIters == 1
\* chunks read from one model stream
MaxChunks == 3
\* cron: the last clock value, the Start calls, and the handler invocations per job
MaxClock == 1
MaxStarts == 2
MaxFires == 2
\* session: the AddMessage calls per session
MaxAppends == 52

(***************************************************************************)
(* Program constants.                                                      *)
(***************************************************************************)
DefaultBufferSize == 100
DefaultMaxIterations == 20
HistoryLimit == 50

Min(a, b) == IF a < b THEN a ELSE b

(***************************************************************************)
(* bus: messages                                                           *)
(***************************************************************************)
Channels == {"telegram", "webui"}
ChatIDs == {"a"}
UserTexts == {"m1"}

NewInboundMessage(channel, senderID, chatID, text) ==
    [Channel |-> channel, SenderID |-> senderID, ChatID |-> chatID,
     Content |-> text, SessionKey |-> channel \o ":" \o chatID]

NewOutboundMessage(channel, chatID, text) ==
    [Channel |-> channel, ChatID |-> chatID, Content |-> text]

InboundRecords ==
    {NewInboundMessage(c, "user", i, t) : c \in Channels, i \in ChatIDs, t \in UserTexts}

SessionKeys == {m.SessionKey : m \in InboundRecords}

\* the records the gateway's channel adapters put on the bus; the web UI calls
\* ProcessDirect instead
AdapterRecords == {m \in InboundRecords : m.Channel = "telegram"}

(***************************************************************************)
(* bus: MessageBus                                                         *)
(***************************************************************************)
NewMessageBus(bufferSize) ==
    IF bufferSize <= 0 THEN DefaultBufferSize ELSE bufferSize

\* a publish that lets one item too many into the channel
PublishInboundOffByOne(m) ==
    IF closed THEN [err |-> "ErrBusClosed", q |-> inbound]
    ELSE IF Len(inbound) <= capacity
         THEN [err |-> "nil", q |-> Append(inbound, m)]
         ELSE [err |-> "ErrBufferFull", q |-> inbound]

\* PublishInbound: the error returned and the channel afterwards
PublishInbound(m) ==
    IF closed THEN [err |-> "ErrBusClosed", q |-> inbound]
    ELSE IF Len(inbound) < capacity
         THEN [err |-> "nil", q |-> Append(inbound, m)]
         ELSE [err |-> "ErrBufferFull", q |-> inbound]

\* PublishOutbound: the error returned and the channel afterwards
PublishOutbound(m) ==
    IF closed THEN [err |-> "ErrBusClosed", q |-> outbound]
    ELSE IF Len(outbound) < capacity
         THEN [err |-> "nil", q |-> Append(outbound, m)]
         ELSE [err |-> "ErrBufferFull", q |-> outbound]

\* the nil pointer a receive on a closed, drained channel yields
NoItem == [nil |-> TRUE]

\* the bus after NewMessageBus, for each of the buffer sizes in `sizes`
InitBusWith(sizes) ==
    /\ inbound = <<>>
    /\ outbound = <<>>
    /\ closed = FALSE
    /\ capacity \in {NewMessageBus(b) : b \in sizes}
    /\ lastPub = [tick |-> 0, queue |-> "none", item |-> NewOutboundMessage("", "", ""),
                  err |-> "nil"]
    /\ lastCons = [tick |-> 0, queue |-> "none", item |-> NoItem, err |-> "nil"]

(***************************************************************************)
(* bus: the producers and consumers wired by the gateway                   *)
(***************************************************************************)
OutboundSamples == {NewOutboundMessage(c, "a", "hi") : c \in Channels}

Tick(t) == 1 - t

\* a producer calls PublishInbound and looks at the error
BusPublishInbound(m) ==
    LET r == PublishInbound(m) IN
    /\ inbound' = r.q
    /\ lastPub' = [tick |-> Tick(lastPub.tick), queue |-> "inbound", item |-> m,
                   err |-> r.err]
    /\ UNCHANGED <<outbound, closed, capacity, agentVars, streamVars, lastCons, cronVars, appended, auxVars, moreVars>>

\* a producer calls PublishOutbound and looks at the error
BusPublishOutbound(m) ==
    LET r == PublishOutbound(m) IN
    /\ outbound' = r.q
    /\ lastPub' = [tick |-> Tick(lastPub.tick), queue |-> "outbound", item |-> m,
                   err |-> r.err]
    /\ UNCHANGED <<inbound, closed, capacity, agentVars, streamVars, lastCons, cronVars, appended, auxVars, moreVars>>

\* what the select of ConsumeInbound / ConsumeOutbound can return on queue q
\* for a caller whose context is cancelled or not: the head of the channel;
\* ctx.Err(); or, on a closed and drained channel, the zero value of the
\* receive.  With none of them possible the call blocks.
ConsumeOutcomes(q, cancelled) ==
    (IF Len(q) > 0 THEN {[item |-> Head(q), err |-> "nil", q |-> Tail(q)]} ELSE {})
    \cup (IF cancelled THEN {[item |-> NoItem, err |-> "context canceled", q |-> q]} ELSE {})
    \cup (IF closed /\ Len(q) = 0 THEN {[item |-> NoItem, err |-> "nil", q |-> q]} ELSE {})

\* a consumer's ConsumeInbound call returns
BusConsumeInbound(cancelled) ==
    \E r \in ConsumeOutcomes(inbound, cancelled) :
        /\ inbound' = r.q
        /\ lastCons' = [tick |-> Tick(lastCons.tick), queue |-> "inbound",
                        item |-> r.item, err |-> r.err]
        /\ UNCHANGED <<outbound, closed, capacity, lastPub, agentVars, streamVars,
                       cronVars, appended, auxVars, moreVars>>

\* a consumer's ConsumeOutbound call returns
BusConsumeOutbound(cancelled) ==
    \E r \in ConsumeOutcomes(outbound, cancelled) :
        /\ outbound' = r.q
        /\ lastCons' = [tick |-> Tick(lastCons.tick), queue |-> "outbound",
                        item |-> r.item, err |-> r.err]
        /\ UNCHANGED <<inbound, closed, capacity, lastPub, agentVars, streamVars,
                       cronVars, appended, auxVars, moreVars>>

\* Close: sets b.closed once; buffered items stay receivable
BusClose ==
    /\ closed' = TRUE
    /\ UNCHANGED <<inbound, outbound, capacity, lastPub, agentVars, streamVars, lastCons, cronVars, appended, auxVars, moreVars>>

NextBus ==
    \/ \E m \in InboundRecords : BusPublishInbound(m)
    \/ \E m \in OutboundSamples : BusPublishOutbound(m)
    \/ \E c \in BOOLEAN : BusConsumeInbound(c)
    \/ \E c \in BOOLEAN : BusConsumeOutbound(c)
    \/ BusClose

(***************************************************************************)
(* session: Session and Manager                                            *)
(***************************************************************************)
Turn(role, text) == [Role |-> role, Content |-> text]

LastN(s, n) == IF Len(s) > n THEN SubSeq(s, Len(s) - n + 1, Len(s)) ELSE s

\* Session.AddMessage applied to the slice it read: append, keep the last 50
AddMessage(ms, role, text) == LastN(Append(ms, Turn(role, text)), HistoryLimit)

(***************************************************************************)
(* tools: Registry, ValidateParams, and the registered list_dir tool       *)
(***************************************************************************)
\* Argument texts are sequences of JSON tokens: "{" and "}" are the braces,
\* "p" is the member "path":"." and "n" is the member "path":1.
JSONTokens == {"{", "}", "p", "n"}

\* json.Unmarshal into a map succeeds exactly on one complete object
JSONValid(t) ==
    /\ Len(t) >= 2
    /\ t[1] = "{"
    /\ t[Len(t)] = "}"
    /\ \A i \in 2..(Len(t) - 1) : t[i] \in {"p", "n"}

EmptyObject == <<>>

\* ProcessMessage: args of a tool call; the members of the object, or the
\* empty object when the text does not parse
ParseArgs(t) == IF JSONValid(t) THEN SubSeq(t, 2, Len(t) - 1) ELSE EmptyObject

Registered == {"list_dir"}

\* ValidateParams against the schema of list_dir: "path" required, a string
ValidateParams(args) ==
    IF \A i \in 1..Len(args) : args[i] \notin {"p", "n"}
    THEN "missing required parameter: path"
    ELSE IF \E i \in 1..Len(args) : args[i] = "n"
         THEN "path should be string"
         ELSE ""

\* what the executor of a registered tool can return
ExecutorOutcomes == {[result |-> "[FILE] x", err |-> ""],
                     [result |-> "", err |-> "failed to read directory"]}

\* Registry.Execute, given the outcome the tool's executor would have
RegistryExecute(name, args, outcome) ==
    IF name \notin Registered
    THEN [result |-> "", err |-> "tool not found: " \o name]
    ELSE IF ValidateParams(args) # ""
         THEN [result |-> "Invalid parameters: " \o ValidateParams(args), err |-> ""]
         ELSE outcome

(***************************************************************************)
(* agent: ContextBuilder                                                   *)
(***************************************************************************)
NoCalls == <<>>

Message(role, text, calls, callID) ==
    [Role |-> role, Content |-> text, ToolCalls |-> calls, ToolCallID |-> callID]

\* convertSessionMessages
ConvertSessionMessages(ms) ==
    [i \in 1..Len(ms) |-> Message(ms[i].Role, ms[i].Content, NoCalls, "")]

\* BuildMessages: system prompt, history, current user message
BuildMessages(history, currentMessage) ==
    <<Message("system", "prompt", NoCalls, "")>> \o history
        \o <<Message("user", currentMessage, NoCalls, "")>>

AddAssistantMessage(ms, text, calls) ==
    Append(ms, Message("assistant", text, calls, ""))

AddToolResult(ms, toolCallID, result) ==
    Append(ms, Message("tool", result, NoCalls, toolCallID))

(***************************************************************************)
(* agent: AgentLoop                                                        *)
(***************************************************************************)
Procs == {"run", "http"}

Placeholder == "I've completed processing but have no response to give."

NoMsg == NewInboundMessage("", "", "", "")

\* agents.defaults.maxToolIterations values handed to NewAgentLoop
ConfigMaxIterations == {0, 1, 2}

\* NewAgentLoop: the iteration cap the loop is constructed with
NewAgentLoop(cfgMaxIterations) ==
    IF cfgMaxIterations <= 0 THEN DefaultMaxIterations ELSE cfgMaxIterations

ToolCall(id, name, arguments) == [ID |-> id, Name |-> name, Arguments |-> arguments]

GoodCall == ToolCall("A", "list_dir", <<"{", "p", "}">>)
UnknownCall == ToolCall("B", "nope", <<"{", "p", "}">>)
BadArgsCall == ToolCall("A", "list_dir", <<"{", "n", "}">>)
BrokenCall == ToolCall("A", "list_dir", <<"{", "p">>)

\* the tool-call lists a stream can leave in the handler
ToolCallLists == {NoCalls, <<GoodCall>>, <<UnknownCall>>, <<BadArgsCall>>,
                  <<BrokenCall>>, <<GoodCall, UnknownCall>>}

\* what one ChatStream call can leave in the handler, or the error it returns
StreamOutcomes(i) ==
    IF i < vary
    THEN {[err |-> "timeout", content |-> "", toolCalls |-> NoCalls]}
         \cup {[err |-> "", content |-> c, toolCalls |-> t] :
                 c \in {"", "hi"}, t \in ToolCallLists}
    ELSE {[err |-> "timeout", content |-> "", toolCalls |-> NoCalls],
          [err |-> "", content |-> "hi", toolCalls |-> NoCalls],
          [err |-> "", content |-> "hi", toolCalls |-> <<GoodCall>>]}

ExecutorOutcomesAt(i) ==
    IF i < vary THEN ExecutorOutcomes
    ELSE {[result |-> "[FILE] x", err |-> ""]}

\* the agent after NewAgentLoop; under the default cap the model is followed
\* through all its iterations on the outcomes that decide the loop's course
InitAgentWith(cfgs, free) ==
    /\ cfgIterations \in cfgs
    /\ maxIterations = NewAgentLoop(cfgIterations)
    /\ vary = IF cfgIterations > 0 THEN free ELSE 0
    /\ sessions = [k \in SessionKeys |-> <<>>]
    /\ files = [k \in SessionKeys |-> <<>>]
    /\ pc = [p \in Procs |-> "idle"]
    /\ msg = [p \in Procs |-> NoMsg]
    /\ iter = [p \in Procs |-> 0]
    /\ messages = [p \in Procs |-> <<>>]
    /\ content = [p \in Procs |-> ""]
    /\ toolCalls = [p \in Procs |-> NoCalls]
    /\ tcIdx = [p \in Procs |-> 0]
    /\ finalContent = [p \in Procs |-> ""]
    /\ err = [p \in Procs |-> ""]
    /\ snap = [p \in Procs |-> <<>>]
    /\ ret = [p \in Procs |-> [text |-> "", err |-> ""]]
    /\ nPublished = 0
    /\ nDirect = 0
    /\ nStreams = [p \in Procs |-> 0]
    /\ okCalls = [k \in SessionKeys |-> 0]

(***************************************************************************)
(* providers: OpenAIProvider.ChatStream, and the agent's streamHandler     *)
(***************************************************************************)
\* tool-call indexes a stream uses, and the id the model gives each of them
\* (ids are unique within one streaming response)
Indexes == {0, 1}
CallID(i) == IF i = 0 THEN "A" ELSE "B"
IndexOf(id) == CHOOSE i \in Indexes : CallID(i) = id
CallIDs == {CallID(i) : i \in Indexes}

\* argument fragments a chunk can carry ("" is <<>>)
Fragments == {<<>>, <<"{">>, <<"p", "}">>, <<"{", "p", "}">>}

\* a fresh &toolCallBuilder{}
NewBuilder == [exists |-> FALSE, ID |-> "", Name |-> "", Arguments |-> <<>>,
               Started |-> FALSE]

NoCall == [present |-> FALSE, ID |-> "", Name |-> "", Arguments |-> <<>>]

InitStream ==
    /\ sPhase = "open"
    /\ nChunks = 0
    /\ builders = [i \in Indexes |-> NewBuilder]
    /\ accumulatingCalls = [id \in CallIDs |-> NoCall]
    /\ hToolCalls = <<>>
    /\ hContent = ""
    /\ events = <<>>
    /\ executed = <<>>

\* streamHandler.OnToolCallStart on the map h.accumulatingCalls
OnToolCallStart(calls, id, name) ==
    [calls EXCEPT ![id] = [present |-> TRUE, ID |-> id, Name |-> name,
                           Arguments |-> <<>>]]

\* streamHandler.OnToolCallDelta on the map h.accumulatingCalls
OnToolCallDelta(calls, id, delta) ==
    IF calls[id].present
    THEN [calls EXCEPT ![id].Arguments = @ \o delta]
    ELSE calls

\* ChatStream: the builder of a tool-call delta after its id and name are taken
Merged(b, id, name) ==
    [b EXCEPT !.exists = TRUE,
              !.ID = IF id # "" THEN id ELSE @,
              !.Name = IF name # "" THEN name ELSE @]

\* ChatStream: does this delta make the builder emit OnToolCallStart
Starts(b) == ~b.Started /\ b.ID # "" /\ b.Name # ""

\* ChatStream: is an argument fragment forwarded as OnToolCallDelta
Forwards(b, args) == args # <<>> /\ b.ID # ""

\* ChatStream: does the builder get an OnToolCallEnd when the stream is over
Ends(b) == b.exists /\ b.Arguments # <<>> /\ b.ID # ""

Event(kind, idx, id) == [kind |-> kind, idx |-> idx, id |-> id]

\* ChatStream, one entry of delta.ToolCalls of a chunk
ReadToolCallDelta(idx, id, name, args) ==
    /\ sPhase = "open"
    /\ nChunks < MaxChunks
    /\ nChunks' = nChunks + 1
    /\ LET b1 == Merged(builders[idx], id, name)
           start == Starts(b1)
           b2 == [b1 EXCEPT !.Started = @ \/ start,
                            !.Arguments = @ \o args]
           c1 == IF start THEN OnToolCallStart(accumulatingCalls, b1.ID, b1.Name)
                 ELSE accumulatingCalls
           fwd == Forwards(b1, args)
       IN /\ builders' = [builders EXCEPT ![idx] = b2]
          /\ accumulatingCalls' = IF fwd THEN OnToolCallDelta(c1, b1.ID, args) ELSE c1
          /\ events' = events
                \o (IF start THEN <<Event("start", idx, b1.ID)>> ELSE <<>>)
                \o (IF fwd THEN <<Event("delta", idx, b1.ID)>> ELSE <<>>)
    /\ UNCHANGED <<sPhase, hToolCalls, hContent, executed, busVars, agentVars, cronVars, appended, auxVars, moreVars>>

\* ChatStream, delta.Content of a chunk: handler.OnContent
ReadContent(token) ==
    /\ sPhase = "open"
    /\ nChunks < MaxChunks
    /\ nChunks' = nChunks + 1
    /\ hContent' = hContent \o token
    /\ UNCHANGED <<sPhase, builders, accumulatingCalls, hToolCalls, events, executed,
                   busVars, agentVars, cronVars, appended, auxVars, moreVars>>

\* the orders in which a range over the map buildersByIndex can visit it
RECURSIVE Orders(_)
Orders(S) ==
    IF S = {} THEN {<<>>}
    ELSE UNION {{<<i>> \o o : o \in Orders(S \ {i})} : i \in S}

\* streamHandler.OnToolCallEnd for the ids of order o, in that order
RECURSIVE EndAll(_, _, _)
EndAll(o, calls, done) ==
    IF o = <<>> THEN [calls |-> calls, done |-> done]
    ELSE LET id == builders[Head(o)].ID IN
         IF Ends(builders[Head(o)]) /\ calls[id].present
         THEN EndAll(Tail(o), [calls EXCEPT ![id] = NoCall],
                     Append(done, [ID |-> calls[id].ID, Name |-> calls[id].Name,
                                   Arguments |-> calls[id].Arguments]))
         ELSE EndAll(Tail(o), calls, done)

RECURSIVE EndEvents(_)
EndEvents(o) ==
    IF o = <<>> THEN <<>>
    ELSE (IF Ends(builders[Head(o)])
          THEN <<Event("end", Head(o), builders[Head(o)].ID)>> ELSE <<>>)
         \o EndEvents(Tail(o))

\* ChatStream, "[DONE]" or end of input: OnToolCallEnd per builder, OnComplete
StreamDone ==
    /\ sPhase = "open"
    /\ \E o \in Orders({i \in Indexes : builders[i].exists}) :
        LET r == EndAll(o, accumulatingCalls, hToolCalls) IN
        /\ accumulatingCalls' = r.calls
        /\ hToolCalls' = r.done
        /\ events' = events \o EndEvents(o)
    /\ sPhase' = "ended"
    /\ UNCHANGED <<nChunks, builders, hContent, executed, busVars, agentVars, cronVars, appended, auxVars, moreVars>>

\* ChatStream, a chunk that does not decode or a read error: OnError, return err
StreamFail ==
    /\ sPhase = "open"
    /\ sPhase' = "failed"
    /\ UNCHANGED <<nChunks, builders, accumulatingCalls, hToolCalls, hContent, events,
                   executed, busVars, agentVars, cronVars, appended, auxVars, moreVars>>

\* ProcessMessage, the range over handler.GetToolCalls(): what Execute is given
ExecuteCalls ==
    /\ sPhase = "ended"
    /\ executed' = [i \in 1..Len(hToolCalls) |->
                      [id |-> hToolCalls[i].ID, name |-> hToolCalls[i].Name,
                       args |-> ParseArgs(hToolCalls[i].Arguments)]]
    /\ sPhase' = "executed"
    /\ UNCHANGED <<nChunks, builders, accumulatingCalls, hToolCalls, hContent, events,
                   busVars, agentVars, cronVars, appended, auxVars, moreVars>>

NextStream ==
    \/ \E idx \in Indexes : \E id \in {"", CallID(idx)}, name \in {"", "list_dir"},
          args \in Fragments : ReadToolCallDelta(idx, id, name, args)
    \/ ReadContent("hi")
    \/ StreamDone
    \/ StreamFail
    \/ ExecuteCalls

(***************************************************************************)
(* cron: Job, Schedule, Payload and the store file                         *)
(***************************************************************************)
\* ids of the Job objects: the ones AddJob generates, and j0 found in the store file
NewIDs == {"j1"}
JobIDs == {"j0"} \cup NewIDs

\* a nil map, and the JSON value null
NilMap == [nilmap |-> TRUE]
NullJSON == [null |-> TRUE]
NilPtr == "nil"

Every(ms) == [Type |-> "every", EveryMs |-> ms, Expr |-> "", AtMs |-> 0]
Cron(expr) == [Type |-> "cron", EveryMs |-> 0, Expr |-> expr, AtMs |-> 0]
Once(at) == [Type |-> "once", EveryMs |-> 0, Expr |-> "", AtMs |-> at]

Payload(deliver) ==
    [Message |-> "ping", Channel |-> "telegram", To |-> "a", Deliver |-> deliver]

NewJob(id, name, schedule, payload) ==
    [ID |-> id, Name |-> name, Schedule |-> schedule, Payload |-> payload,
     Enabled |-> TRUE]

\* an encoder that leaves every omitempty field out, empty or not
OmitAlways(key, value, empty) == <<>>

\* a JSON object as a function from the keys it has to their values
Field(obj, key, default) == IF key \in DOMAIN obj THEN obj[key] ELSE default
OmitEmpty(key, value, empty) == IF value = empty THEN <<>> ELSE key :> value

\* json.Marshal of one Job: the omitempty fields are left out when zero
EncodeJob(j) ==
    [id |-> j.ID, name |-> j.Name, enabled |-> j.Enabled,
     schedule |-> ("type" :> j.Schedule.Type)
                  @@ OmitEmpty("everyMs", j.Schedule.EveryMs, 0)
                  @@ OmitEmpty("expr", j.Schedule.Expr, "")
                  @@ OmitEmpty("atMs", j.Schedule.AtMs, 0),
     payload |-> ("message" :> j.Payload.Message) @@ ("deliver" :> j.Payload.Deliver)
                 @@ OmitEmpty("channel", j.Payload.Channel, "")
                 @@ OmitEmpty("to", j.Payload.To, "")]

\* json.Unmarshal of one Job: absent fields keep their zero value
DecodeJob(e) ==
    [ID |-> e.id, Name |-> e.name, Enabled |-> e.enabled,
     Schedule |-> [Type |-> Field(e.schedule, "type", ""),
                   EveryMs |-> Field(e.schedule, "everyMs", 0),
                   Expr |-> Field(e.schedule, "expr", ""),
                   AtMs |-> Field(e.schedule, "atMs", 0)],
     Payload |-> [Message |-> Field(e.payload, "message", ""),
                  Channel |-> Field(e.payload, "channel", ""),
                  To |-> Field(e.payload, "to", ""),
                  Deliver |-> Field(e.payload, "deliver", FALSE)]]

\* save: the bytes MarshalIndent(s.jobs) writes
Marshal(m, objs) ==
    [kind |-> "json",
     value |-> IF m = NilMap THEN NullJSON
               ELSE [k \in DOMAIN m |->
                        IF m[k] = NilPtr THEN NullJSON ELSE EncodeJob(objs[m[k]])]]

\* load: the map and the Job objects NewService ends up with for a store file
Load(file) ==
    IF file.kind \in {"missing", "garbage"} THEN [jobs |-> <<>>, heap |-> <<>>]
    ELSE IF file.value = NullJSON THEN [jobs |-> NilMap, heap |-> <<>>]
    ELSE LET v == file.value IN
         [jobs |-> [k \in DOMAIN v |-> IF v[k] = NullJSON THEN NilPtr ELSE v[k].id],
          heap |-> [k \in {x \in DOMAIN v : v[x] # NullJSON} |-> DecodeJob(v[k])]]

\* ListJobs: the (id, name, schedule, enabled) tuples of the catalogue
ListJobs(m, objs) ==
    IF m = NilMap THEN {}
    ELSE {IF m[k] = NilPtr THEN <<NilPtr>>
          ELSE <<objs[m[k]].ID, objs[m[k]].Name, objs[m[k]].Schedule, objs[m[k]].Enabled>> :
             k \in DOMAIN m}

\* the store files the service is constructed over
InitialStores ==
    {[kind |-> "missing", value |-> NullJSON], [kind |-> "garbage", value |-> NullJSON],
     [kind |-> "json", value |-> NullJSON],
     [kind |-> "json", value |-> "j0" :> NullJSON],
     [kind |-> "json",
      value |-> "j0" :> EncodeJob(NewJob("j0", "old", Cron("* * * * *"), Payload(FALSE)))]}

\* the service after NewService over one of `stores`, SetJobHandler done
InitCronWith(stores) ==
    /\ now = 0
    /\ store \in stores
    /\ heap = Load(store).heap
    /\ jobs = Load(store).jobs
    /\ running = FALSE
    /\ mu = "free"
    /\ workers = [id \in JobIDs |-> "none"]
    /\ cronEntries = [id \in JobIDs |-> 0]
    /\ cronOn = FALSE
    /\ cronRuns = [id \in JobIDs |-> "none"]
    /\ crashed = ""
    /\ cronRet = [op |-> "NewService", id |-> "", err |-> "", text |-> ""]
    /\ invoked = [id \in JobIDs |-> 0]
    /\ schedAt = [id \in JobIDs |-> {}]
    /\ failedAdds = {}
    /\ allSaved = TRUE
    /\ nStarts = 0
    /\ appended = [k \in SessionKeys |-> <<>>]

(***************************************************************************)
(* tools: paths, as the sequences of their characters                      *)
(***************************************************************************)
toolVars == <<allowedDir, toolCtx, toolRun>>
chanVars == <<allowFrom, allowSelf, waOutbound, sending, wclock, written, handled>>

Sep == "/"
Cwd == <<"/", "w">>         \* the working directory of the process
Home == <<"/", "h">>        \* os.UserHomeDir()
Workspace == <<"/", "w">>   \* the workspace NewAgentLoop hands to SetAllowedDir

\* the components of s between separators
RECURSIVE Split(_)
Split(s) ==
    IF s = <<>> THEN << <<>> >>
    ELSE LET r == Split(Tail(s)) IN
         IF Head(s) = Sep THEN << <<>> >> \o r
         ELSE << <<Head(s)>> \o Head(r) >> \o Tail(r)

\* filepath.Clean on the components of a rooted path: empty and "." components
\* go, ".." removes the component before it and stays at the root
RECURSIVE CleanFrom(_, _)
CleanFrom(done, rest) ==
    IF rest = <<>> THEN done
    ELSE LET c == Head(rest) IN
         CleanFrom(IF c = <<>> \/ c = <<".">> THEN done
                   ELSE IF c = <<".", ".">>
                        THEN (IF done = <<>> THEN done ELSE SubSeq(done, 1, Len(done) - 1))
                        ELSE Append(done, c),
                   Tail(rest))

RECURSIVE Join(_)
Join(cs) == IF cs = <<>> THEN <<>> ELSE <<Sep>> \o Head(cs) \o Join(Tail(cs))

\* the components of filepath.Abs(path): a relative path is joined to the
\* working directory, then the path is cleaned
AbsParts(path) ==
    CleanFrom(<<>>, Split(IF path # <<>> /\ Head(path) = Sep THEN path
                          ELSE Cwd \o <<Sep>> \o path))

\* filepath.Abs(path)
Abs(path) == IF AbsParts(path) = <<>> THEN <<Sep>> ELSE Join(AbsParts(path))

\* strings.HasPrefix
HasPrefix(s, prefix) == Len(prefix) <= Len(s) /\ SubSeq(s, 1, Len(prefix)) = prefix

\* isPathAllowed: "" for nil, else the error
isPathAllowed(path) ==
    IF allowedDir = <<>> THEN ""
    ELSE IF ~HasPrefix(Abs(path), Abs(allowedDir)) THEN "outside of allowed directory"
    ELSE ""

\* resolvePath: the resolved path and the error
resolvePath(path) ==
    LET expanded == IF HasPrefix(path, <<"~", Sep>>)
                    THEN Home \o <<Sep>> \o SubSeq(path, 3, Len(path))
                    ELSE path
        absPath == Abs(expanded)
    IN  IF isPathAllowed(absPath) # "" THEN [path |-> <<>>, err |-> isPathAllowed(absPath)]
        ELSE [path |-> absPath, err |-> ""]

\* the paths the model hands to the file tools
ToolPaths ==
    { <<"/", "w">>,                                \* the root itself
      <<"/", "w", "/", "f">>,                      \* beneath the root
      <<"f">>,                                     \* relative, beneath the root
      <<"/", "w", "/", "d", "/", ".", ".", "/", "f">>,
      <<"/", "w", "/", ".", ".", "/", "e", "/", "f">>,   \* leaves the root by ".."
      <<"/", "e", "/", "f">>,                      \* elsewhere
      <<"/", "w", "x", "/", "f">>,                 \* in a sibling whose name extends the root's
      <<"~", "/", "f">> }                          \* in the home directory

(***************************************************************************)
(* tools: Execute of the file tools, exec and message                      *)
(***************************************************************************)
MaxOutputSize == 10240      \* 10 * 1024
TruncationMarkerLen == 23   \* len("\n... (output truncated)")
FailedPrefixLen == 38       \* len("Command failed: exit status 1\nOutput:\n")
TimedOutPrefixLen == 45     \* len("Command timed out after 1m0s\nPartial output:\n")
WrittenPrefixLen == 27      \* len("File written successfully: ")
EditedPrefixLen == 26       \* len("File edited successfully: ")
SentTextLen == 25           \* len("Message sent successfully")

FileTools == {"read_file", "write_file", "edit_file", "list_dir"}

\* the lengths of command outputs, file contents and listings
TextSizes == {0, 1, MaxOutputSize, MaxOutputSize + 1}

NoRun == [tool |-> "", arg |-> <<>>, during |-> <<"", "">>, touched |-> {}, size |-> 0,
          err |-> "", sent |-> {}]

\* ReadFileTool / WriteFileTool / EditFileTool / ListDirTool Execute on `path`;
\* n is the length of the file's content (read_file) or of the listing (list_dir)
FileTool(name, path, n) ==
    LET r == resolvePath(path) IN
    /\ toolRun' = [tool |-> name, arg |-> path, during |-> <<"", "">>,
                   touched |-> IF r.err = "" THEN {r.path} ELSE {},
                   size |-> IF r.err # "" THEN 0
                            ELSE IF name = "write_file" THEN WrittenPrefixLen + Len(r.path)
                            ELSE IF name = "edit_file" THEN EditedPrefixLen + Len(r.path)
                            ELSE n,
                   err |-> r.err, sent |-> {}]
    /\ UNCHANGED <<busVars, agentVars, streamVars, cronVars, appended, allowedDir, toolCtx,
                   chanVars, ctxDone, moreVars>>

\* the length of the output after the cut at 10 KiB
Truncate(n) == IF n > MaxOutputSize THEN MaxOutputSize + TruncationMarkerLen ELSE n

\* ExecTool.Execute of a command that passes the guards, printing n characters
\* and ending in `outcome`
ShellExecute(n, outcome) ==
    /\ toolRun' = [tool |-> "exec", arg |-> <<>>, during |-> <<"", "">>, touched |-> {},
                   size |-> IF outcome = "timeout" THEN TimedOutPrefixLen + Truncate(n)
                            ELSE IF outcome = "failed" THEN FailedPrefixLen + Truncate(n)
                            ELSE Truncate(n),
                   err |-> "", sent |-> {}]
    /\ UNCHANGED <<busVars, agentVars, streamVars, cronVars, appended, allowedDir, toolCtx,
                   chanVars, ctxDone, moreVars>>

\* MessageTool.Execute with parameters channel, chat_id and content, called
\* while ProcessMessage works on inbound m; the callback is the one
\* registerDefaultTools installs
MessageExecute(m, channel, chatID, body) ==
    LET ch == IF channel # "" THEN channel ELSE toolCtx.channel
        id == IF chatID # "" THEN chatID ELSE toolCtx.chatID
        unset == ch = "" \/ id = ""
        r == PublishOutbound(NewOutboundMessage(ch, id, body))
    IN  /\ body # ""
        /\ outbound' = IF unset THEN outbound ELSE r.q
        /\ toolRun' = [tool |-> "message", arg |-> <<channel, chatID>>,
                       during |-> <<m.Channel, m.ChatID>>, touched |-> {},
                       size |-> IF unset \/ r.err # "nil" THEN 0 ELSE SentTextLen,
                       err |-> IF unset THEN "channel and chat_id must be set"
                               ELSE IF r.err # "nil" THEN "failed to send message"
                               ELSE "",
                       sent |-> IF unset THEN {} ELSE {<<ch, id>>}]
        /\ UNCHANGED <<inbound, closed, capacity, lastPub, lastCons, agentVars, streamVars,
                       cronVars, appended, allowedDir, toolCtx, chanVars, ctxDone, moreVars>>

\* the tool calls of the model
NextTools ==
    \/ \E name \in FileTools, path \in ToolPaths, n \in TextSizes : FileTool(name, path, n)
    \/ \E n \in TextSizes, outcome \in {"ok", "failed", "timeout"} : ShellExecute(n, outcome)
    \/ \E m \in InboundRecords, channel \in {""} \cup Channels, chatID \in {""} \cup ChatIDs :
           MessageExecute(m, channel, chatID, "hi")

\* the gateway's job handler: executeCronJob builds an agent loop of its own
\* from the configuration the gateway started with, and NewAgentLoop calls
\* SetAllowedDir(workspace) again when restrictToWorkspace is set
MaxDirWrites == 3
executeCronJob ==
    /\ allowedDir # <<>>
    /\ dirWrites < MaxDirWrites
    /\ allowedDir' = allowedDir
    /\ dirWrites' = dirWrites + 1
    /\ UNCHANGED <<busVars, agentVars, streamVars, cronVars, appended, toolCtx, toolRun,
                   chanVars, ctxDone, nano, directKey, closeVars, stopVars, wsVars>>

NextSandbox ==
    \/ \E name \in FileTools, path \in ToolPaths, n \in TextSizes : FileTool(name, path, n)
    \/ \E n \in TextSizes, outcome \in {"ok", "failed", "timeout"} : ShellExecute(n, outcome)
    \/ executeCronJob

\* the tools after NewAgentLoop: SetAllowedDir(workspace) when the workspace
\* restriction is on; the message tool as NewMessageTool leaves it
InitToolsWith(dirs) ==
    /\ allowedDir \in dirs
    /\ toolCtx = [channel |-> "", chatID |-> ""]
    /\ toolRun = NoRun

(***************************************************************************)
(* channels: Telegram, Discord and the WhatsApp bridge                     *)
(***************************************************************************)
EchoWindow == 45            \* 45 * time.Second
MaxWClock == 90             \* the clock is observed at multiples of EchoWindow up to here
MaxSends == 2               \* SendMessage calls made

\* the accounts that write to the bot on Telegram and Discord
Users == {[ID |-> "1", Username |-> "ann", Label |-> "ann#1", Bot |-> FALSE],
          [ID |-> "2", Username |-> "bob", Label |-> "bob#2", Bot |-> FALSE],
          [ID |-> "3", Username |-> "bot", Label |-> "bot#3", Bot |-> TRUE]}

\* WhatsApp senders: the part before the "@" and the part after it
WaSenders == {[local |-> "111", server |-> "s.whatsapp.net"],
              [local |-> "222", server |-> "s.whatsapp.net"]}

\* msg.Sender as the bridge writes it
Jid(s) == s.local \o "@" \o s.server

\* normalizeSender: the sender up to the first "@"
normalizeSender(s) == s.local

\* the allow-lists of the configurations
AllowLists == {{}, {"ann", "111"}, {"1"}, {"bob#2", "222@s.whatsapp.net"}}

NoSend == [chatID |-> "", text |-> ""]
NoHandled == [channel |-> "", ids |-> {}, chat |-> "", text |-> "", fromMe |-> FALSE, at |-> 0]

\* the message handlers the gateway installs: build the record, publish it,
\* ignore the error
Handle(channel, sender, ids, chat, text, fromMe) ==
    /\ inbound' = PublishInbound(NewInboundMessage(channel, sender, chat, text)).q
    /\ handled' = [channel |-> channel, ids |-> ids, chat |-> chat, text |-> text,
                   fromMe |-> fromMe, at |-> wclock]

\* TelegramChannel.fetchUpdates on one update with a text
TelegramUpdate(u, text) ==
    /\ Handle("telegram", u.Username, {u.ID, u.Username, u.Label}, "a", text, FALSE)
    /\ UNCHANGED <<outbound, closed, capacity, lastPub, lastCons, agentVars, streamVars,
                   cronVars, appended, toolVars, allowFrom, allowSelf, waOutbound, sending,
                   wclock, written, ctxDone, moreVars>>

\* DiscordChannel.isAllowed
isAllowed(author) ==
    \/ allowFrom = {}
    \/ \E allowed \in allowFrom :
           allowed = author.ID \/ allowed = author.Username \/ allowed = author.Label

\* DiscordChannel.handleMessage
DiscordMessage(author, text) ==
    /\ IF author.Bot \/ ~isAllowed(author) \/ text = ""
       THEN UNCHANGED <<inbound, handled>>
       ELSE Handle("discord", author.Label, {author.ID, author.Username, author.Label},
                   "a", text, FALSE)
    /\ UNCHANGED <<outbound, closed, capacity, lastPub, lastCons, agentVars, streamVars,
                   cronVars, appended, toolVars, allowFrom, allowSelf, waOutbound, sending,
                   wclock, written, ctxDone, moreVars>>

\* WhatsAppChannel.isAllowedSender
isAllowedSender(sender) ==
    \/ allowFrom = {}
    \/ \E allowed \in allowFrom : allowed = Jid(sender) \/ allowed = normalizeSender(sender)

\* the records of rs that isOutboundEcho keeps: not older than the window
KeptByEcho(rs) == SelectSeq(rs, LAMBDA rec : wclock - rec.at <= EchoWindow)

\* cleanupOutboundLocked: the records after the cutoff
cleanupOutboundLocked(rs) == SelectSeq(rs, LAMBDA rec : rec.at > wclock - EchoWindow)

\* isOutboundEcho, on the records it keeps
isOutboundEcho(chatID, text) ==
    \E i \in DOMAIN KeptByEcho(waOutbound) :
        KeptByEcho(waOutbound)[i].chatID = chatID /\ KeptByEcho(waOutbound)[i].text = text

\* WhatsAppChannel.SendMessage up to the return of conn.WriteMessage: the
\* frame is with the bridge, w.mu is held, nothing is remembered yet
SendWrite(chatID, text) ==
    /\ sending = NoSend
    /\ Cardinality(written) < MaxSends
    /\ [chatID |-> chatID, text |-> text, at |-> wclock] \notin written
    /\ sending' = [chatID |-> chatID, text |-> text]
    /\ written' = written \cup {[chatID |-> chatID, text |-> text, at |-> wclock]}
    /\ UNCHANGED <<busVars, agentVars, streamVars, cronVars, appended, toolVars, allowFrom,
                   allowSelf, waOutbound, wclock, handled, ctxDone, moreVars>>

\* SendMessage from rememberOutbound to its return
SendRemember ==
    /\ sending # NoSend
    /\ waOutbound' = cleanupOutboundLocked(Append(waOutbound,
                         [chatID |-> sending.chatID, text |-> sending.text, at |-> wclock]))
    /\ sending' = NoSend
    /\ UNCHANGED <<busVars, agentVars, streamVars, cronVars, appended, toolVars, allowFrom,
                   allowSelf, wclock, written, handled, ctxDone, moreVars>>

\* handleBridgeMessage on a frame of type "message" the read loop received
handleBridgeMessage(sender, body, fromMe) ==
    /\ waOutbound' = IF body # "" /\ fromMe /\ allowSelf THEN KeptByEcho(waOutbound)
                     ELSE waOutbound
    /\ IF \/ body = ""
          \/ fromMe /\ ~allowSelf
          \/ fromMe /\ allowSelf /\ isOutboundEcho(Jid(sender), body)
          \/ ~isAllowedSender(sender)
       THEN UNCHANGED <<inbound, handled>>
       ELSE Handle("whatsapp", normalizeSender(sender), {Jid(sender), normalizeSender(sender)},
                   Jid(sender), body, fromMe)
    /\ UNCHANGED <<outbound, closed, capacity, lastPub, lastCons, agentVars, streamVars,
                   cronVars, appended, toolVars, allowFrom, allowSelf, sending, wclock,
                   written, ctxDone, moreVars>>

\* time passes
WallClock ==
    /\ wclock + EchoWindow <= MaxWClock
    /\ wclock' = wclock + EchoWindow
    /\ UNCHANGED <<busVars, agentVars, streamVars, cronVars, appended, toolVars, allowFrom,
                   allowSelf, waOutbound, sending, written, handled, ctxDone, moreVars>>

\* Run: ConsumeInbound takes the next inbound off the bus
AgentTakes ==
    /\ Len(inbound) > 0
    /\ inbound' = Tail(inbound)
    /\ UNCHANGED <<outbound, closed, capacity, lastPub, lastCons, agentVars, streamVars,
                   cronVars, appended, auxVars, moreVars>>

NextChannels ==
    \/ \E u \in Users : TelegramUpdate(u, "hi")
    \/ \E u \in Users : DiscordMessage(u, "hi")
    \/ \E s \in WaSenders : SendWrite(Jid(s), "hi")
    \/ SendRemember
    \/ \E s \in WaSenders, fromMe \in BOOLEAN : handleBridgeMessage(s, "hi", fromMe)
    \/ WallClock
    \/ AgentTakes

\* the channels after the gateway built them from the configuration
InitChannelsWith(lists, selfs) ==
    /\ allowFrom \in lists
    /\ allowSelf \in selfs
    /\ waOutbound = <<>>
    /\ sending = NoSend
    /\ wclock = 0
    /\ written = {}
    /\ handled = NoHandled

\* the goroutines that publish while the bus is closed
Publishers == {"p1", "p2"}
\* the connections the WebSocket server accepts, numbered in the order of their
\* upgrade, and the chat ids their requests carry
MaxConns == 3
Conns == 1..MaxConns
WsChats == {"x", "y"}

\* the remaining state at the start of the process
InitMore ==
    /\ nano = 0
    /\ directKey = ""
    /\ pubPc = [p \in Publishers |-> "idle"]
    /\ closeWaiting = 0
    /\ nCloses = 0
    /\ busCrash = ""
    /\ lastRaced = FALSE
    /\ gwStopped = {}
    /\ stopPc = [g \in {"main", "bg"} |-> IF g = "main" THEN "running" ELSE "parked"]
    /\ tgPoll = "polling"
    /\ tStopChan = "open"
    /\ dStopChan = "open"
    /\ dSession = "open"
    /\ stopCrash = ""
    /\ wsPc = [c \in Conns |-> "none"]
    /\ wsChat = [c \in Conns |-> ""]
    /\ wsOpen = [c \in Conns |-> FALSE]
    /\ clients = [k \in WsChats |-> 0]
    /\ dirWrites = IF allowedDir = <<>> THEN 0 ELSE 1

\* tools and channels untouched, the context live
InitAux == InitToolsWith({<<>>}) /\ InitChannelsWith({{}}, {FALSE}) /\ ctxDone = FALSE /\ InitMore

InitTools ==
    InitBusWith({BufferSize}) /\ InitAgentWith({1}, 0) /\ InitStream
    /\ InitCronWith({[kind |-> "missing", value |-> NullJSON]})
    /\ InitToolsWith({<<>>, Workspace}) /\ InitChannelsWith({{}}, {FALSE}) /\ ctxDone = FALSE /\ InitMore

SpecTools == InitTools /\ [][NextTools]_vars

\* the tools of the gateway's agent while the scheduler runs jobs
SpecSandbox == InitTools /\ [][NextSandbox]_vars

InitChannels ==
    InitBusWith({1}) /\ InitAgentWith({1}, 0) /\ InitStream
    /\ InitCronWith({[kind |-> "missing", value |-> NullJSON]})
    /\ InitToolsWith({<<>>}) /\ InitChannelsWith(AllowLists, BOOLEAN) /\ ctxDone = FALSE /\ InitMore

SpecChannels == InitChannels /\ [][NextChannels]_vars

(***************************************************************************)
(* channels: the WebSocket server                                          *)
(***************************************************************************)
notWs == <<busVars, agentVars, streamVars, cronVars, appended, auxVars, nano, directKey,
           closeVars, stopVars, dirWrites>>

\* handleWebSocket up to the upgrade: the request's chatId names the chat
WsUpgrade(conn, chatID) ==
    /\ wsPc[conn] = "none"
    /\ \A c \in Conns : c < conn => wsPc[c] # "none"
    /\ wsPc' = [wsPc EXCEPT ![conn] = "upgraded"]
    /\ wsChat' = [wsChat EXCEPT ![conn] = chatID]
    /\ wsOpen' = [wsOpen EXCEPT ![conn] = TRUE]
    /\ UNCHANGED <<notWs, clients>>

\* addClient under w.mu: the connection the chat id had is closed and replaced
addClient(conn) ==
    /\ wsPc[conn] = "upgraded"
    /\ LET old == clients[wsChat[conn]] IN
       wsOpen' = IF old # 0 THEN [wsOpen EXCEPT ![old] = FALSE] ELSE wsOpen
    /\ clients' = [clients EXCEPT ![wsChat[conn]] = conn]
    /\ wsPc' = [wsPc EXCEPT ![conn] = "reading"]
    /\ UNCHANGED <<notWs, wsChat>>

\* the browser closes its end of a connection
WsPeerCloses(conn) ==
    /\ wsPc[conn] \in {"upgraded", "reading"}
    /\ wsOpen[conn]
    /\ wsOpen' = [wsOpen EXCEPT ![conn] = FALSE]
    /\ UNCHANGED <<notWs, wsPc, wsChat, clients>>

\* the read loop of handleWebSocket: ReadMessage fails on a closed connection
WsReadFails(conn) ==
    /\ wsPc[conn] = "reading"
    /\ ~wsOpen[conn]
    /\ wsPc' = [wsPc EXCEPT ![conn] = "ended"]
    /\ UNCHANGED <<notWs, wsChat, wsOpen, clients>>

\* removeClient under w.mu, then conn.Close(): the entry of the chat id is
\* deleted, whichever connection it holds
removeClient(conn) ==
    /\ wsPc[conn] = "ended"
    /\ clients' = [clients EXCEPT ![wsChat[conn]] = 0]
    /\ wsPc' = [wsPc EXCEPT ![conn] = "finished"]
    /\ UNCHANGED <<notWs, wsChat, wsOpen>>

NextWs ==
    \/ \E conn \in Conns, chatID \in WsChats : WsUpgrade(conn, chatID)
    \/ \E conn \in Conns : addClient(conn)
    \/ \E conn \in Conns : WsPeerCloses(conn)
    \/ \E conn \in Conns : WsReadFails(conn)
    \/ \E conn \in Conns : removeClient(conn)

(***************************************************************************)
(* channels: shutdown                                                      *)
(***************************************************************************)
\* everything but the context and the adapters' shutdown state
notStop == <<busVars, agentVars, streamVars, cronVars, appended, toolVars, chanVars, nano,
             directKey, closeVars, restVars>>

\* the signal handler cancels the context the adapters were started under
StopCancel ==
    /\ ~ctxDone
    /\ ctxDone' = TRUE
    /\ UNCHANGED <<notStop, stopVars>>

\* TelegramChannel.pollUpdates: a tick of the ticker starts fetchUpdates, which
\* returns; a closed stopChan or a done context ends the goroutine (wg.Done).
\* With several cases ready the select takes any of them.
TelegramPoll ==
    /\ stopCrash = ""
    /\ \/ tgPoll = "polling" /\ tgPoll' = "fetching"
       \/ tgPoll = "fetching" /\ tgPoll' = "polling"
       \/ tgPoll = "polling" /\ (ctxDone \/ tStopChan = "closed") /\ tgPoll' = "done"
    /\ UNCHANGED <<notStop, ctxDone, gwStopped, stopPc, tStopChan, dStopChan, dSession, stopCrash>>

\* the gateway after Run returned: TelegramChannel.Stop, close(t.stopChan)
TelegramStopClose ==
    /\ stopCrash = ""
    /\ ctxDone
    /\ stopPc["main"] = "running"
    /\ "telegram" \notin gwStopped
    /\ tStopChan' = "closed"
    /\ stopPc' = [stopPc EXCEPT !["main"] = "tgWait"]
    /\ UNCHANGED <<notStop, ctxDone, gwStopped, tgPoll, dStopChan, dSession, stopCrash>>

\* TelegramChannel.Stop: t.wg.Wait() returns, and the gateway's loop goes on
TelegramStopReturn ==
    /\ stopCrash = ""
    /\ stopPc["main"] = "tgWait"
    /\ tgPoll = "done"
    /\ stopPc' = [stopPc EXCEPT !["main"] = "running"]
    /\ gwStopped' = gwStopped \cup {"telegram"}
    /\ UNCHANGED <<notStop, ctxDone, tgPoll, tStopChan, dStopChan, dSession, stopCrash>>

\* the gateway after Run returned: its loop over Registry.GetAll(), whose order
\* is the map's, calls DiscordChannel.Stop
GatewayStopDiscord ==
    /\ stopCrash = ""
    /\ ctxDone
    /\ stopPc["main"] = "running"
    /\ "discord" \notin gwStopped
    /\ stopPc' = [stopPc EXCEPT !["main"] = "select"]
    /\ UNCHANGED <<notStop, ctxDone, gwStopped, tgPoll, tStopChan, dStopChan, dSession, stopCrash>>

\* DiscordChannel.Stop returned to the gateway's loop
GatewayDiscordStopped ==
    /\ stopCrash = ""
    /\ stopPc["main"] = "returned"
    /\ stopPc' = [stopPc EXCEPT !["main"] = "running"]
    /\ gwStopped' = gwStopped \cup {"discord"}
    /\ UNCHANGED <<notStop, ctxDone, tgPoll, tStopChan, dStopChan, dSession, stopCrash>>

\* the goroutine DiscordChannel.Start left behind: ctx.Done() or stopChan wakes
\* it and it calls d.Stop()
DiscordWake ==
    /\ stopCrash = ""
    /\ stopPc["bg"] = "parked"
    /\ ctxDone \/ dStopChan = "closed"
    /\ stopPc' = [stopPc EXCEPT !["bg"] = "select"]
    /\ UNCHANGED <<notStop, ctxDone, gwStopped, tgPoll, tStopChan, dStopChan, dSession, stopCrash>>

\* one step of DiscordChannel.Stop in goroutine g: the select on stopChan;
\* close(d.stopChan); the test of d.session; d.session.Close(); d.session = nil;
\* d.wg.Wait()
DiscordStop(g) ==
    /\ stopCrash = ""
    /\ \/ /\ stopPc[g] = "select"
          /\ stopPc' = [stopPc EXCEPT ![g] = IF dStopChan = "closed" THEN "session" ELSE "close"]
          /\ UNCHANGED <<dStopChan, dSession, stopCrash>>
       \/ /\ stopPc[g] = "close"
          /\ IF dStopChan = "closed"
             THEN stopCrash' = "close of closed channel" /\ UNCHANGED <<stopPc, dStopChan>>
             ELSE /\ dStopChan' = "closed"
                  /\ stopPc' = [stopPc EXCEPT ![g] = "session"]
                  /\ UNCHANGED stopCrash
          /\ UNCHANGED dSession
       \/ /\ stopPc[g] = "session"
          /\ stopPc' = [stopPc EXCEPT ![g] = IF dSession # "nil" THEN "closeSession" ELSE "wait"]
          /\ UNCHANGED <<dStopChan, dSession, stopCrash>>
       \/ /\ stopPc[g] = "closeSession"
          /\ IF dSession = "nil"
             THEN stopCrash' = "nil pointer dereference" /\ UNCHANGED <<stopPc, dSession>>
             ELSE /\ dSession' = "closed"
                  /\ stopPc' = [stopPc EXCEPT ![g] = "clear"]
                  /\ UNCHANGED stopCrash
          /\ UNCHANGED dStopChan
       \/ /\ stopPc[g] = "clear"
          /\ dSession' = "nil"
          /\ stopPc' = [stopPc EXCEPT ![g] = "returned"]
          /\ UNCHANGED <<dStopChan, stopCrash>>
       \/ /\ stopPc[g] = "wait"
          /\ stopPc["bg"] = "done"
          /\ stopPc' = [stopPc EXCEPT ![g] = "returned"]
          /\ UNCHANGED <<dStopChan, dSession, stopCrash>>
    /\ UNCHANGED <<notStop, ctxDone, gwStopped, tgPoll, tStopChan>>

\* the goroutine of DiscordChannel.Start ends after its d.Stop(): wg.Done
DiscordDone ==
    /\ stopCrash = ""
    /\ stopPc["bg"] = "returned"
    /\ stopPc' = [stopPc EXCEPT !["bg"] = "done"]
    /\ UNCHANGED <<notStop, ctxDone, gwStopped, tgPoll, tStopChan, dStopChan, dSession, stopCrash>>

NextStop ==
    \/ StopCancel
    \/ TelegramPoll
    \/ TelegramStopClose
    \/ TelegramStopReturn
    \/ GatewayStopDiscord
    \/ GatewayDiscordStopped
    \/ DiscordWake
    \/ \E g \in {"main", "bg"} : DiscordStop(g)
    \/ DiscordDone

(***************************************************************************)
(* bus: PublishInbound and Close, lock by lock                             *)
(***************************************************************************)
MaxCloses == 2      \* Close calls made

\* a lock that is granted whoever holds the read lock
LockIgnoresReaders == TRUE

\* b.mu.Lock() is granted when no publisher holds b.mu.RLock()
CanLock == \A p \in Publishers : pubPc[p] = "idle"

\* PublishInbound up to the test of b.closed: RLock (not granted while a Close
\* waits for the lock); a closed bus returns ErrBusClosed at once
PubEnter(p, m) ==
    /\ busCrash = ""
    /\ pubPc[p] = "idle"
    /\ closeWaiting = 0
    /\ IF closed
       THEN /\ lastPub' = [tick |-> Tick(lastPub.tick), queue |-> "inbound", item |-> m,
                           err |-> "ErrBusClosed"]
            /\ lastRaced' = FALSE
            /\ UNCHANGED pubPc
       ELSE /\ pubPc' = [pubPc EXCEPT ![p] = "checked"]
            /\ UNCHANGED <<lastPub, lastRaced>>
    /\ UNCHANGED <<inbound, outbound, closed, capacity, lastCons, agentVars, streamVars,
                   cronVars, appended, auxVars, nano, directKey, closeWaiting, nCloses,
                   busCrash,
                   stopVars, restVars>>

\* PublishInbound from the select to the return: a send on a closed channel
\* panics; else the item is buffered or ErrBufferFull returned; RUnlock
PubSend(p, m) ==
    /\ busCrash = ""
    /\ pubPc[p] = "checked"
    /\ IF closed
       THEN /\ busCrash' = "send on closed channel"
            /\ UNCHANGED <<inbound, lastPub, pubPc, lastRaced>>
       ELSE /\ inbound' = PublishInbound(m).q
            /\ lastPub' = [tick |-> Tick(lastPub.tick), queue |-> "inbound", item |-> m,
                           err |-> PublishInbound(m).err]
            /\ pubPc' = [pubPc EXCEPT ![p] = "idle"]
            /\ lastRaced' = (closeWaiting > 0)
            /\ UNCHANGED busCrash
    /\ UNCHANGED <<outbound, closed, capacity, lastCons, agentVars, streamVars, cronVars,
                   appended, auxVars, nano, directKey, closeWaiting, nCloses,
                   stopVars, restVars>>

\* Close is called and waits for b.mu.Lock()
CloseCall ==
    /\ busCrash = ""
    /\ closeWaiting + nCloses < MaxCloses
    /\ closeWaiting' = closeWaiting + 1
    /\ UNCHANGED <<busVars, agentVars, streamVars, cronVars, appended, auxVars, nano,
                   directKey, pubPc, nCloses, busCrash, lastRaced,
                   stopVars, restVars>>

\* Close from the grant of the lock to its return
CloseRun ==
    /\ busCrash = ""
    /\ closeWaiting > 0
    /\ CanLock
    /\ closed' = TRUE
    /\ closeWaiting' = closeWaiting - 1
    /\ nCloses' = nCloses + 1
    /\ UNCHANGED <<inbound, outbound, capacity, lastPub, lastCons, agentVars, streamVars,
                   cronVars, appended, auxVars, nano, directKey, pubPc, busCrash, lastRaced,
                   stopVars, restVars>>

NextClose ==
    \/ \E p \in Publishers, m \in InboundRecords : PubEnter(p, m)
    \/ \E p \in Publishers, m \in InboundRecords : PubSend(p, m)
    \/ CloseCall
    \/ CloseRun
    \/ BusConsumeInbound(FALSE)

InitBusOnly == InitBusWith({BufferSize}) /\ InitAgentWith({1}, 0) /\ InitStream /\ InitCronWith({[kind |-> "missing", value |-> NullJSON]}) /\ InitAux

SpecBus == InitBusOnly /\ [][NextBus]_vars

SpecClose == InitBusOnly /\ [][NextClose]_vars

\* the gateway with its Telegram and Discord adapters started
SpecStop == InitBusOnly /\ [][NextStop]_vars

\* the WebSocket server accepting connections
SpecWs == InitBusOnly /\ [][NextWs]_vars

(***************************************************************************)
(* agent: the goroutines around the loop                                   *)
(***************************************************************************)
Key(p) == msg[p].SessionKey

\* a channel adapter's handler (gateway): build the record, publish, ignore the error
ChannelPublish(m) ==
    /\ nPublished < MaxInbound
    /\ nPublished' = nPublished + 1
    /\ inbound' = PublishInbound(m).q
    /\ UNCHANGED <<outbound, closed, capacity, lastPub, streamVars, lastCons, cronVars, appended, auxVars, moreVars>>
    /\ UNCHANGED <<cfgIterations, maxIterations, vary, sessions, files, pc, msg, iter, messages, content,
                   toolCalls, tcIdx, finalContent, err, snap, ret, nDirect, nStreams,
                   okCalls>>

\* handleOutboundMessages: take the next outbound and hand it to its channel
OutboundPump ==
    /\ Len(outbound) > 0
    /\ outbound' = Tail(outbound)
    /\ UNCHANGED <<inbound, closed, capacity, lastPub, agentVars, streamVars, lastCons, cronVars, appended, auxVars, moreVars>>

\* Run: ConsumeInbound returned a record; ProcessMessage is called with it
RunConsume ==
    /\ pc["run"] = "idle"
    /\ Len(inbound) > 0
    /\ msg' = [msg EXCEPT !["run"] = Head(inbound)]
    /\ inbound' = Tail(inbound)
    /\ pc' = [pc EXCEPT !["run"] = "start"]
    /\ UNCHANGED <<outbound, closed, capacity, lastPub, streamVars, lastCons, cronVars, appended, auxVars, moreVars>>
    /\ UNCHANGED <<cfgIterations, maxIterations, vary, sessions, files, iter, messages, content, toolCalls,
                   tcIdx, finalContent, err, snap, ret, nPublished, nDirect, nStreams,
                   okCalls>>

\* webui handleMessage -> ProcessDirect(ctx, text, sessionKey, channel, chatID):
\* synthesize the record, call ProcessMessage
DirectCall(channel, chatID, text, sessionKey) ==
    /\ pc["http"] = "idle"
    /\ nDirect < MaxDirect
    /\ nDirect' = nDirect + 1
    /\ directKey' = sessionKey
    /\ msg' = [msg EXCEPT !["http"] = NewInboundMessage(channel, "user", chatID, text)]
    /\ pc' = [pc EXCEPT !["http"] = "start"]
    /\ UNCHANGED <<busVars, streamVars, cronVars, appended, auxVars, nano, tailVars>>
    /\ UNCHANGED <<cfgIterations, maxIterations, vary, sessions, files, iter, messages, content, toolCalls,
                   tcIdx, finalContent, err, snap, ret, nPublished, nStreams, okCalls>>

(***************************************************************************)
(* agent: ProcessMessage, one action per step of goroutine p               *)
(***************************************************************************)
\* GetOrCreate, GetHistory, convertSessionMessages, BuildMessages
Begin(p) ==
    /\ pc[p] = "start"
    /\ messages' = [messages EXCEPT
                      ![p] = BuildMessages(ConvertSessionMessages(sessions[Key(p)]),
                                           msg[p].Content)]
    /\ iter' = [iter EXCEPT ![p] = 0]
    /\ finalContent' = [finalContent EXCEPT ![p] = ""]
    /\ content' = [content EXCEPT ![p] = ""]
    /\ toolCalls' = [toolCalls EXCEPT ![p] = NoCalls]
    /\ err' = [err EXCEPT ![p] = ""]
    /\ nStreams' = [nStreams EXCEPT ![p] = 0]
    /\ pc' = [pc EXCEPT ![p] = "loop"]
    /\ UNCHANGED <<busVars, streamVars, cronVars, appended, auxVars, moreVars>>
    /\ UNCHANGED <<cfgIterations, maxIterations, vary, sessions, files, msg, tcIdx, snap, ret, nPublished,
                   nDirect, okCalls>>

\* a loop condition that admits one pass too many
LoopContinuesOffByOne(i) == i <= maxIterations

\* the condition of the for loop: i < a.MaxIterations
LoopContinues(i) == i < maxIterations

\* one pass of the for loop up to the tool calls: ChatStream, then either the
\* error return, the assistant message with its tool calls, or the break
Stream(p) ==
    /\ pc[p] = "loop"
    /\ LoopContinues(iter[p])
    /\ \E out \in StreamOutcomes(iter[p]) :
        /\ nStreams' = [nStreams EXCEPT ![p] = @ + 1]
        /\ IF out.err # ""
           THEN /\ err' = [err EXCEPT ![p] = "LLM stream error: " \o out.err]
                /\ pc' = [pc EXCEPT ![p] = "failed"]
                /\ UNCHANGED <<content, toolCalls, messages, tcIdx, finalContent>>
           ELSE /\ content' = [content EXCEPT ![p] = out.content]
                /\ toolCalls' = [toolCalls EXCEPT ![p] = out.toolCalls]
                /\ IF Len(out.toolCalls) > 0
                   THEN /\ messages' = [messages EXCEPT
                              ![p] = AddAssistantMessage(@, out.content, out.toolCalls)]
                        /\ tcIdx' = [tcIdx EXCEPT ![p] = 1]
                        /\ pc' = [pc EXCEPT ![p] = "tools"]
                        /\ UNCHANGED finalContent
                   ELSE /\ finalContent' = [finalContent EXCEPT ![p] = out.content]
                        /\ pc' = [pc EXCEPT ![p] = "reply"]
                        /\ UNCHANGED <<messages, tcIdx>>
                /\ UNCHANGED err
    /\ UNCHANGED <<busVars, streamVars, cronVars, appended, auxVars, moreVars>>
    /\ UNCHANGED <<cfgIterations, maxIterations, vary, sessions, files, msg, iter, snap, ret, nPublished,
                   nDirect, okCalls>>

\* a result text that forgets the error branch
ToolResultTextIgnoresError(r) == r.result

\* the text appended for one tool call: Execute's result, or "Error: <err>"
ToolResultText(r) == IF r.err # "" THEN "Error: " \o r.err ELSE r.result

\* one pass of the range over toolCalls: parse, Execute, AddToolResult; after
\* the last call the loop counter advances
ExecTool(p) ==
    /\ pc[p] = "tools"
    /\ LET tc == toolCalls[p][tcIdx[p]]
           args == ParseArgs(tc.Arguments)
       IN \E o \in ExecutorOutcomesAt(iter[p]) :
            messages' = [messages EXCEPT
                ![p] = AddToolResult(@, tc.ID,
                                     ToolResultText(RegistryExecute(tc.Name, args, o)))]
    /\ IF tcIdx[p] < Len(toolCalls[p])
       THEN /\ tcIdx' = [tcIdx EXCEPT ![p] = @ + 1]
            /\ UNCHANGED <<iter, pc>>
       ELSE /\ iter' = [iter EXCEPT ![p] = @ + 1]
            /\ pc' = [pc EXCEPT ![p] = "loop"]
            /\ UNCHANGED tcIdx
    /\ UNCHANGED <<busVars, streamVars, cronVars, appended, auxVars, moreVars>>
    /\ UNCHANGED <<cfgIterations, maxIterations, vary, sessions, files, msg, content, toolCalls,
                   finalContent, err, snap, ret, nPublished, nDirect, nStreams, okCalls>>

\* the reply after the loop: finalContent, or the placeholder when it is empty
FinalReply(fc) == IF fc = "" THEN Placeholder ELSE fc

\* the loop is left (break, or i = MaxIterations); placeholder substitution;
\* sess.AddMessage("user", ...) reads s.Messages
AddUserRead(p) ==
    /\ \/ pc[p] = "reply"
       \/ pc[p] = "loop" /\ ~LoopContinues(iter[p])
    /\ finalContent' = [finalContent EXCEPT ![p] = FinalReply(@)]
    /\ snap' = [snap EXCEPT ![p] = sessions[Key(p)]]
    /\ pc' = [pc EXCEPT ![p] = "addUserW"]
    /\ UNCHANGED <<busVars, streamVars, cronVars, appended, auxVars, moreVars>>
    /\ UNCHANGED <<cfgIterations, maxIterations, vary, sessions, files, msg, iter, messages, content,
                   toolCalls, tcIdx, err, ret, nPublished, nDirect, nStreams, okCalls>>

\* sess.AddMessage("user", ...) stores the appended slice
AddUserWrite(p) ==
    /\ pc[p] = "addUserW"
    /\ sessions' = [sessions EXCEPT ![Key(p)] = AddMessage(snap[p], "user", msg[p].Content)]
    /\ appended' = [appended EXCEPT ![Key(p)] = Append(@, Turn("user", msg[p].Content))]
    /\ pc' = [pc EXCEPT ![p] = "addAsstR"]
    /\ UNCHANGED <<busVars, streamVars, cronVars, auxVars, moreVars>>
    /\ UNCHANGED <<cfgIterations, maxIterations, vary, files, msg, iter, messages, content, toolCalls, tcIdx,
                   finalContent, err, snap, ret, nPublished, nDirect, nStreams, okCalls>>

\* sess.AddMessage("assistant", ...) reads s.Messages
AddAssistantRead(p) ==
    /\ pc[p] = "addAsstR"
    /\ snap' = [snap EXCEPT ![p] = sessions[Key(p)]]
    /\ pc' = [pc EXCEPT ![p] = "addAsstW"]
    /\ UNCHANGED <<busVars, streamVars, cronVars, appended, auxVars, moreVars>>
    /\ UNCHANGED <<cfgIterations, maxIterations, vary, sessions, files, msg, iter, messages, content,
                   toolCalls, tcIdx, finalContent, err, ret, nPublished, nDirect,
                   nStreams, okCalls>>

\* sess.AddMessage("assistant", ...) stores the appended slice
AddAssistantWrite(p) ==
    /\ pc[p] = "addAsstW"
    /\ sessions' = [sessions EXCEPT
                      ![Key(p)] = AddMessage(snap[p], "assistant", finalContent[p])]
    /\ appended' = [appended EXCEPT ![Key(p)] = Append(@, Turn("assistant", finalContent[p]))]
    /\ pc' = [pc EXCEPT ![p] = "save"]
    /\ UNCHANGED <<busVars, streamVars, cronVars, auxVars, moreVars>>
    /\ UNCHANGED <<cfgIterations, maxIterations, vary, files, msg, iter, messages, content, toolCalls, tcIdx,
                   finalContent, err, snap, ret, nPublished, nDirect, nStreams, okCalls>>

\* a.sessions.Save(sess): the session file is rewritten from s.Messages; then
\* ProcessMessage returns the outbound record and a nil error
Save(p) ==
    /\ pc[p] = "save"
    /\ files' = [files EXCEPT ![Key(p)] = sessions[Key(p)]]
    /\ okCalls' = [okCalls EXCEPT ![Key(p)] = @ + 1]
    /\ pc' = [pc EXCEPT ![p] = "return"]
    /\ UNCHANGED <<busVars, streamVars, cronVars, appended, auxVars, moreVars>>
    /\ UNCHANGED <<cfgIterations, maxIterations, vary, sessions, msg, iter, messages, content, toolCalls,
                   tcIdx, finalContent, err, snap, ret, nPublished, nDirect, nStreams>>

\* the locals of a ProcessMessage call go out of scope when its caller is done
\* with what it returned
DropLocals(p) ==
    /\ msg' = [msg EXCEPT ![p] = NoMsg]
    /\ iter' = [iter EXCEPT ![p] = 0]
    /\ messages' = [messages EXCEPT ![p] = <<>>]
    /\ content' = [content EXCEPT ![p] = ""]
    /\ toolCalls' = [toolCalls EXCEPT ![p] = NoCalls]
    /\ tcIdx' = [tcIdx EXCEPT ![p] = 0]
    /\ finalContent' = [finalContent EXCEPT ![p] = ""]
    /\ err' = [err EXCEPT ![p] = ""]
    /\ snap' = [snap EXCEPT ![p] = <<>>]
    /\ nStreams' = [nStreams EXCEPT ![p] = 0]

\* Run, at the head of its loop: return when the context is done, else go on
\* to ConsumeInbound
LoopHead == IF ctxDone THEN "done" ELSE "idle"

\* Run: ProcessMessage returned a response; publish it, back to the loop head
RunPublishResponse ==
    /\ pc["run"] = "return"
    /\ outbound' = PublishOutbound(NewOutboundMessage(msg["run"].Channel,
                                       msg["run"].ChatID, finalContent["run"])).q
    /\ pc' = [pc EXCEPT !["run"] = LoopHead]
    /\ DropLocals("run")
    /\ UNCHANGED <<inbound, closed, capacity, lastPub, streamVars, lastCons, cronVars, appended, auxVars, moreVars>>
    /\ UNCHANGED <<cfgIterations, maxIterations, vary, sessions, files, ret, nPublished, nDirect, okCalls>>

\* an error outbound addressed to no chat
ErrorOutboundUnaddressed(m, e) == NewOutboundMessage(m.Channel, "", "Error: " \o e)

\* the outbound Run builds from the error ProcessMessage returned
ErrorOutbound(m, e) == NewOutboundMessage(m.Channel, m.ChatID, "Error: " \o e)

\* Run: ProcessMessage returned an error; publish the error response, continue
RunPublishError ==
    /\ pc["run"] = "failed"
    /\ outbound' = PublishOutbound(ErrorOutbound(msg["run"], err["run"])).q
    /\ pc' = [pc EXCEPT !["run"] = LoopHead]
    /\ DropLocals("run")
    /\ UNCHANGED <<inbound, closed, capacity, lastPub, streamVars, lastCons, cronVars, appended, auxVars, moreVars>>
    /\ UNCHANGED <<cfgIterations, maxIterations, vary, sessions, files, ret, nPublished, nDirect, okCalls>>

\* ProcessDirect returns: "" on the cli channel, the reply otherwise, or the error
DirectReturn ==
    /\ pc["http"] \in {"return", "failed"}
    /\ ret' = [ret EXCEPT !["http"] =
                 IF pc["http"] = "failed" THEN [text |-> "", err |-> err["http"]]
                 ELSE [text |-> IF msg["http"].Channel = "cli" THEN ""
                                ELSE finalContent["http"],
                       err |-> ""]]
    /\ pc' = [pc EXCEPT !["http"] = "idle"]
    /\ DropLocals("http")
    /\ UNCHANGED <<busVars, streamVars, cronVars, appended, auxVars, moreVars>>
    /\ UNCHANGED <<cfgIterations, maxIterations, vary, sessions, files, nPublished, nDirect, okCalls>>

ProcessMessage(p) ==
    \/ Begin(p)
    \/ Stream(p)
    \/ ExecTool(p)
    \/ AddUserRead(p)
    \/ AddUserWrite(p)
    \/ AddAssistantRead(p)
    \/ AddAssistantWrite(p)
    \/ Save(p)

NextAgent ==
    \/ \E m \in AdapterRecords : ChannelPublish(m)
    \/ OutboundPump
    \/ RunConsume
    \/ ProcessMessage("run")
    \/ RunPublishResponse
    \/ RunPublishError

NextConc ==
    \/ NextAgent
    \/ \E m \in InboundRecords : DirectCall(m.Channel, m.ChatID, m.Content, m.SessionKey)
    \/ ProcessMessage("http")
    \/ DirectReturn

InitAgent == InitBusWith(1..BufferSize) /\ InitAgentWith(ConfigMaxIterations, VaryIters) /\ InitStream /\ InitCronWith({[kind |-> "missing", value |-> NullJSON]}) /\ InitAux

SpecAgent == InitAgent /\ [][NextAgent]_vars

(***************************************************************************)
(* agent: shutdown of Run                                                  *)
(***************************************************************************)
\* the gateway's signal handler calls cancel()
Cancel ==
    /\ ~ctxDone
    /\ ctxDone' = TRUE
    /\ UNCHANGED <<busVars, agentVars, streamVars, cronVars, appended, toolVars, chanVars, moreVars>>

\* a ConsumeInbound that waits on the inbound channel alone: it returns
\* without a record only once the bus is closed
ConsumeWithoutContext ==
    /\ pc["run"] = "idle"
    /\ closed /\ Len(inbound) = 0
    /\ pc' = [pc EXCEPT !["run"] = "done"]
    /\ UNCHANGED <<busVars, streamVars, cronVars, appended, auxVars, moreVars>>
    /\ UNCHANGED <<cfgIterations, maxIterations, vary, sessions, files, msg, iter, messages, content,
                   toolCalls, tcIdx, finalContent, err, snap, ret, nPublished, nDirect,
                   nStreams, okCalls>>

\* Run: the select of ConsumeInbound takes ctx.Done(), ConsumeInbound returns
\* ctx.Err() and Run returns nil
RunCancelReturn ==
    /\ pc["run"] = "idle"
    /\ ctxDone
    /\ pc' = [pc EXCEPT !["run"] = "done"]
    /\ UNCHANGED <<busVars, streamVars, cronVars, appended, auxVars, moreVars>>
    /\ UNCHANGED <<cfgIterations, maxIterations, vary, sessions, files, msg, iter, messages, content,
                   toolCalls, tcIdx, finalContent, err, snap, ret, nPublished, nDirect,
                   nStreams, okCalls>>

\* the steps of the goroutine that runs Run
RunStep ==
    \/ RunConsume
    \/ ProcessMessage("run")
    \/ RunPublishResponse
    \/ RunPublishError
    \/ RunCancelReturn

NextShutdown ==
    \/ \E m \in AdapterRecords : ChannelPublish(m)
    \/ OutboundPump
    \/ RunConsume
    \/ ProcessMessage("run")
    \/ RunPublishResponse
    \/ RunPublishError
    \/ Cancel
    \/ RunCancelReturn

\* the goroutine of Run is scheduled whenever it can take a step
SpecShutdown == InitAgent /\ [][NextShutdown]_vars /\ WF_vars(RunStep)

InitConc == InitBusWith({BufferSize}) /\ InitAgentWith({1}, 0) /\ InitStream /\ InitCronWith({[kind |-> "missing", value |-> NullJSON]}) /\ InitAux

SpecConc == InitConc /\ [][NextConc]_vars

\* the session keys callers of ProcessDirect pass
DirectKeys == SessionKeys \cup {"webui:default"}

\* ProcessDirect calls alone, with every pairing of session key and chat
NextDirect ==
    \/ \E m \in InboundRecords, k \in DirectKeys : DirectCall(m.Channel, m.ChatID, m.Content, k)
    \/ ProcessMessage("http")
    \/ DirectReturn

SpecDirect == InitAgent /\ [][NextDirect]_vars

InitStreamOnly == InitBusWith({BufferSize}) /\ InitAgentWith({1}, 0) /\ InitStream /\ InitCronWith({[kind |-> "missing", value |-> NullJSON]}) /\ InitAux

SpecStream == InitStreamOnly /\ [][NextStream]_vars

(***************************************************************************)
(* cron: Service and the goroutines it starts                              *)
(***************************************************************************)
otherVars == <<busVars, agentVars, streamVars, appended, auxVars, moreVars>>

\* the schedules and the payload AddJob is called with; the clock's last value
AddSchedules == {Every(1), Every(0), Once(1)}

\* scheduleJob for the timer goroutine of job j: an Every job gets a goroutine
\* that has yet to create its ticker, a Once job that is not in the past one
\* that waits; w is the goroutine's position so far
ScheduleTimer(j, w) ==
    IF j.Schedule.Type = "every" THEN "new"
    ELSE IF j.Schedule.Type = "once" /\ ~(j.Schedule.AtMs < now) THEN "wait"
    ELSE w

\* scheduleCronJob: one more entry in the cron engine unless the expression is empty
ScheduleCron(j, n) ==
    IF j.Schedule.Type = "cron" /\ j.Schedule.Expr # "" THEN n + 1 ELSE n

\* the keys of s.jobs holding a nil pointer
NilEntries == IF jobs = NilMap THEN {} ELSE {k \in DOMAIN jobs : jobs[k] = NilPtr}

\* the process dies of a panic
Panic(what) ==
    /\ crashed' = what
    /\ UNCHANGED <<now, store, heap, jobs, running, mu, workers, cronEntries, cronOn,
                   cronRuns, cronRet, invoked, schedAt, failedAdds, allSaved, nStarts>>

\* save as called by the mutators: the file after the write, or the old file
\* when the write fails
SaveTo(m, objs, ok) == IF ok THEN Marshal(m, objs) ELSE store

\* generateJobID in a run whose adds read different clock values: an id no job
\* has had (generateJobIDAt is the function itself)
generateJobID == CHOOSE id \in NewIDs : id \notin DOMAIN heap

\* AddJob(name, schedule, payload); the write of jobs.json succeeds or fails
AddJob(id, schedule, payload, ok) ==
    /\ crashed = "" /\ mu = "free"
    /\ NewIDs \ DOMAIN heap # {}
    /\ id = generateJobID
    /\ IF jobs = NilMap
       THEN Panic("assignment to entry in nil map")
       ELSE LET j == NewJob(id, "n", schedule, payload) IN
            /\ heap' = heap @@ (id :> j)
            /\ workers' = [workers EXCEPT ![id] = IF running THEN ScheduleTimer(j, @) ELSE @]
            /\ cronEntries' = [cronEntries EXCEPT ![id] = IF running THEN ScheduleCron(j, @) ELSE @]
            /\ schedAt' = [schedAt EXCEPT ![id] = IF running /\ j.Schedule.Type = "once" THEN @ \cup {now} ELSE @]
            /\ jobs' = IF ok THEN jobs @@ (id :> id) ELSE jobs
            /\ store' = SaveTo(jobs @@ (id :> id), heap', ok)
            /\ failedAdds' = IF ok THEN failedAdds ELSE failedAdds \cup {id}
            /\ allSaved' = (allSaved /\ ok)
            /\ cronRet' = [op |-> "AddJob", id |-> id,
                           err |-> IF ok THEN "" ELSE "failed to save job", text |-> ""]
            /\ UNCHANGED <<now, running, mu, cronOn, cronRuns, crashed, invoked, nStarts>>
    /\ UNCHANGED otherVars

\* RemoveJob(id) for a key of the catalogue; the result of save is dropped
RemoveJob(id, ok) ==
    /\ crashed = "" /\ mu = "free"
    /\ jobs # NilMap /\ id \in DOMAIN jobs
    /\ jobs' = [k \in DOMAIN jobs \ {id} |-> jobs[k]]
    /\ store' = SaveTo(jobs', heap, ok)
    /\ allSaved' = (allSaved /\ ok)
    /\ cronRet' = [op |-> "RemoveJob", id |-> id, err |-> "", text |-> ""]
    /\ UNCHANGED <<now, heap, running, mu, workers, cronEntries, cronOn, cronRuns, crashed,
                   invoked, schedAt, failedAdds, nStarts>>
    /\ UNCHANGED otherVars

\* EnableJob(id, enabled) for a key of the catalogue; the result of save is dropped
EnableJob(id, enabled, ok) ==
    /\ crashed = "" /\ mu = "free"
    /\ jobs # NilMap /\ id \in DOMAIN jobs
    /\ IF jobs[id] = NilPtr
       THEN Panic("nil pointer dereference")
       ELSE /\ heap' = [heap EXCEPT ![jobs[id]].Enabled = enabled]
            /\ store' = SaveTo(jobs, heap', ok)
            /\ allSaved' = (allSaved /\ ok)
            /\ cronRet' = [op |-> "EnableJob", id |-> id, err |-> "", text |-> ""]
            /\ UNCHANGED <<now, jobs, running, mu, workers, cronEntries, cronOn, cronRuns,
                           crashed, invoked, schedAt, failedAdds, nStarts>>
    /\ UNCHANGED otherVars

\* Start on a stopped service: scheduleJob for every enabled job, then cron.Start
Start ==
    /\ crashed = "" /\ mu = "free"
    /\ ~running
    /\ nStarts < MaxStarts
    /\ IF NilEntries # {}
       THEN Panic("nil pointer dereference")
       ELSE LET S == IF jobs = NilMap THEN {}
                     ELSE {jobs[k] : k \in {x \in DOMAIN jobs : heap[jobs[x]].Enabled}} IN
            /\ running' = TRUE
            /\ cronOn' = TRUE
            /\ nStarts' = nStarts + 1
            /\ workers' = [id \in JobIDs |->
                             IF id \in S THEN ScheduleTimer(heap[id], workers[id])
                             ELSE workers[id]]
            /\ cronEntries' = [id \in JobIDs |->
                                 IF id \in S THEN ScheduleCron(heap[id], cronEntries[id])
                                 ELSE cronEntries[id]]
            /\ schedAt' = [id \in JobIDs |->
                             IF id \in S /\ heap[id].Schedule.Type = "once"
                             THEN schedAt[id] \cup {now} ELSE schedAt[id]]
            /\ cronRet' = [op |-> "Start", id |-> "", err |-> "", text |-> ""]
            /\ UNCHANGED <<now, store, heap, jobs, mu, cronRuns, crashed, invoked,
                           failedAdds, allSaved>>
    /\ UNCHANGED otherVars

\* Stop up to wg.Wait: running cleared, stopChan closed, cron.Stop called; s.mu held
StopBegin ==
    /\ crashed = "" /\ mu = "free"
    /\ running
    /\ running' = FALSE
    /\ cronOn' = FALSE
    /\ mu' = "Stop"
    /\ UNCHANGED <<now, store, heap, jobs, workers, cronEntries, cronRuns, crashed, cronRet,
                   invoked, schedAt, failedAdds, allSaved, nStarts>>
    /\ UNCHANGED otherVars

\* Stop returns: wg.Wait found every Every / Once goroutine finished
StopReturn ==
    /\ crashed = "" /\ mu = "Stop"
    /\ \A id \in JobIDs : workers[id] \in {"none", "done"}
    /\ mu' = "free"
    /\ cronRet' = [op |-> "Stop", id |-> "", err |-> "", text |-> ""]
    /\ UNCHANGED <<now, store, heap, jobs, running, workers, cronEntries, cronOn, cronRuns,
                   crashed, invoked, schedAt, failedAdds, allSaved, nStarts>>
    /\ UNCHANGED otherVars

\* ListJobs and Status: Status reads job.Enabled of every entry
Query(op) ==
    /\ crashed = "" /\ mu = "free"
    /\ IF op = "Status" /\ NilEntries # {}
       THEN Panic("nil pointer dereference")
       ELSE /\ cronRet' = [op |-> op, id |-> "", err |-> "", text |-> ""]
            /\ cronRet' # cronRet
            /\ UNCHANGED <<now, store, heap, jobs, running, mu, workers, cronEntries, cronOn,
                           cronRuns, crashed, invoked, schedAt, failedAdds, allSaved, nStarts>>
    /\ UNCHANGED otherVars

\* s.running as a goroutine reads it without s.mu: while Stop is between its
\* write and its return the read races with the write
RunningSeen == IF mu = "Stop" THEN BOOLEAN ELSE {running}

\* the goroutine of scheduleEveryJob / scheduleOnceJob for job id takes its
\* next step up to executeJob's test of job.Enabled: NewTicker; the ticker or
\* timer case with the test of s.running; or the stopChan case
TimerStep(id) ==
    /\ crashed = ""
    /\ LET j == heap[id] IN
       \/ /\ workers[id] = "new"
          /\ IF j.Schedule.EveryMs <= 0
             THEN Panic("non-positive interval for NewTicker")
             ELSE /\ workers' = [workers EXCEPT ![id] = "wait"]
                  /\ UNCHANGED <<now, store, heap, jobs, running, mu, cronEntries, cronOn,
                                 cronRuns, crashed, cronRet, invoked, schedAt, failedAdds,
                                 allSaved, nStarts>>
       \/ /\ workers[id] = "wait"
          /\ \/ /\ j.Schedule.Type = "once" => now >= j.Schedule.AtMs
                /\ invoked[id] < MaxFires
                /\ \E r \in RunningSeen :
                      workers' = [workers EXCEPT ![id] =
                                     IF ~r THEN "done"
                                     ELSE IF j.Enabled THEN "call"
                                     ELSE IF j.Schedule.Type = "once" THEN "done" ELSE "wait"]
             \/ /\ ~running
                /\ workers' = [workers EXCEPT ![id] = "done"]
          /\ workers' # workers
          /\ UNCHANGED <<now, store, heap, jobs, running, mu, cronEntries, cronOn, cronRuns,
                         crashed, cronRet, invoked, schedAt, failedAdds, allSaved, nStarts>>
    /\ UNCHANGED otherVars

\* the cron engine starts a goroutine for an entry of job id, which runs
\* executeJob up to its test of job.Enabled
CronFire(id) ==
    /\ crashed = ""
    /\ cronOn /\ cronEntries[id] > 0
    /\ cronRuns[id] = "none"
    /\ invoked[id] < MaxFires
    /\ heap[id].Enabled
    /\ cronRuns' = [cronRuns EXCEPT ![id] = "call"]
    /\ UNCHANGED <<now, store, heap, jobs, running, mu, workers, cronEntries, cronOn,
                   crashed, cronRet, invoked, schedAt, failedAdds, allSaved, nStarts>>
    /\ UNCHANGED otherVars

\* executeJob calls s.onJob(job): a handler invocation begins
BeginInvocation(g, id) ==
    /\ crashed = ""
    /\ IF g = "timer"
       THEN /\ workers[id] = "call"
            /\ workers' = [workers EXCEPT ![id] = "handler"]
            /\ UNCHANGED cronRuns
       ELSE /\ cronRuns[id] = "call"
            /\ cronRuns' = [cronRuns EXCEPT ![id] = "handler"]
            /\ UNCHANGED workers
    /\ invoked' = [invoked EXCEPT ![id] = @ + 1]
    /\ UNCHANGED <<now, store, heap, jobs, running, mu, cronEntries, cronOn, crashed, cronRet,
                   schedAt, failedAdds, allSaved, nStarts>>
    /\ UNCHANGED otherVars

\* the running handler's agent pass calls a method of the Service through the
\* cron tool: the call waits for s.mu while Stop holds it, and goes on when
\* s.mu is free again
HandlerLock(g, id) ==
    /\ crashed = ""
    /\ LET at == IF g = "timer" THEN workers[id] ELSE cronRuns[id]
           to == IF mu = "free" THEN "handler" ELSE "blocked" IN
       /\ at = (IF mu = "free" THEN "blocked" ELSE "handler")
       /\ IF g = "timer"
          THEN workers' = [workers EXCEPT ![id] = to] /\ UNCHANGED cronRuns
          ELSE cronRuns' = [cronRuns EXCEPT ![id] = to] /\ UNCHANGED workers
    /\ UNCHANGED <<now, store, heap, jobs, running, mu, cronEntries, cronOn, crashed, cronRet,
                   invoked, schedAt, failedAdds, allSaved, nStarts>>
    /\ UNCHANGED otherVars

\* the handler the gateway installs, executeCronJob, returns the reply of its
\* agent pass or an error; executeJob prints it
HandlerReturn(g, id, text, e) ==
    /\ crashed = ""
    /\ IF g = "timer"
       THEN /\ workers[id] = "handler"
            /\ workers' = [workers EXCEPT ![id] =
                              IF heap[id].Schedule.Type = "once" THEN "done" ELSE "wait"]
            /\ UNCHANGED cronRuns
       ELSE /\ cronRuns[id] = "handler"
            /\ cronRuns' = [cronRuns EXCEPT ![id] = "none"]
            /\ UNCHANGED workers
    /\ cronRet' = [op |-> "onJob", id |-> id, err |-> e, text |-> text]
    /\ UNCHANGED <<now, store, heap, jobs, running, mu, cronEntries, cronOn, crashed,
                   invoked, schedAt, failedAdds, allSaved, nStarts>>
    /\ UNCHANGED otherVars

\* time passes
ClockTick ==
    /\ crashed = ""
    /\ now < MaxClock
    /\ now' = now + 1
    /\ UNCHANGED <<store, heap, jobs, running, mu, workers, cronEntries, cronOn, cronRuns,
                   crashed, cronRet, invoked, schedAt, failedAdds, allSaved, nStarts>>
    /\ UNCHANGED otherVars

NextCron ==
    \/ \E id \in NewIDs, sch \in AddSchedules, ok \in BOOLEAN : AddJob(id, sch, Payload(TRUE), ok)
    \/ \E id \in JobIDs : RemoveJob(id, TRUE)
    \/ \E id \in JobIDs, en \in BOOLEAN : EnableJob(id, en, TRUE)
    \/ Start
    \/ StopBegin
    \/ StopReturn
    \/ \E id \in DOMAIN heap : TimerStep(id)
    \/ \E id \in DOMAIN heap : CronFire(id)
    \/ \E g \in {"timer", "cron"}, id \in JobIDs : BeginInvocation(g, id)
    \/ \E g \in {"timer", "cron"}, id \in JobIDs : HandlerLock(g, id)
    \/ \E g \in {"timer", "cron"}, id \in JobIDs, r \in {<<"done", "">>, <<"", "LLM stream error: timeout">>} :
          HandlerReturn(g, id, r[1], r[2])
    \/ ClockTick

\* the gateway's scheduler over no jobs.json or over one written by an earlier run
InitCron ==
    InitBusWith({BufferSize}) /\ InitAgentWith({1}, 0) /\ InitStream
    /\ InitCronWith({f \in InitialStores : f.kind = "missing" \/ DOMAIN Load(f).heap # {}}) /\ InitAux

SpecCron == InitCron /\ [][NextCron]_vars

\* the catalogue and its file, with writes that fail, over every kind of
\* jobs.json; no time passes and no job fires
NextCatalogue ==
    \/ \E id \in NewIDs, sch \in AddSchedules, ok \in BOOLEAN : AddJob(id, sch, Payload(TRUE), ok)
    \/ \E id \in JobIDs, ok \in BOOLEAN : RemoveJob(id, ok)
    \/ \E id \in JobIDs, en \in BOOLEAN, ok \in BOOLEAN : EnableJob(id, en, ok)
    \/ Start
    \/ StopBegin
    \/ StopReturn
    \/ \E id \in DOMAIN heap : TimerStep(id)
    \/ \E op \in {"ListJobs", "Status"} : Query(op)

InitCatalogue ==
    InitBusWith({BufferSize}) /\ InitAgentWith({1}, 0) /\ InitStream
    /\ InitCronWith(InitialStores) /\ InitAux

SpecCatalogue == InitCatalogue /\ [][NextCatalogue]_vars

(***************************************************************************)
(* cron: the ids of added jobs                                             *)
(***************************************************************************)
MaxNano == 2    \* the clock readings are 0 .. MaxNano

\* generateJobID when time.Now().UnixNano() reads t
generateJobIDAt(t) == "job_" \o ToString(t)

\* the names given to added jobs
JobNames == {"a", "b"}

\* AddJob(name, schedule, payload) on a Service that was not started (the
\* `cron add` command), the clock reading t: NewJob, the map assignment, save
AddJobAt(t, name, schedule, ok) ==
    /\ crashed = "" /\ mu = "free" /\ ~running
    /\ t >= nano
    /\ nano' = t
    /\ IF jobs = NilMap
       THEN Panic("assignment to entry in nil map")
       ELSE LET id == generateJobIDAt(t)
                j == NewJob(id, name, schedule, Payload(TRUE))
                put == (id :> id) @@ jobs
            IN  /\ heap' = IF ok \/ id \notin DOMAIN heap THEN (id :> j) @@ heap ELSE heap
                /\ jobs' = IF ok THEN put
                           ELSE [k \in DOMAIN jobs \ {id} |-> jobs[k]]
                /\ store' = SaveTo(put, (id :> j) @@ heap, ok)
                /\ allSaved' = (allSaved /\ ok)
                /\ cronRet' = [op |-> "AddJob", id |-> id,
                               err |-> IF ok THEN "" ELSE "failed to save job", text |-> ""]
                /\ UNCHANGED <<now, running, mu, workers, cronEntries, cronOn, cronRuns,
                               crashed, invoked, schedAt, failedAdds, nStarts>>
    /\ UNCHANGED <<busVars, agentVars, streamVars, appended, auxVars, directKey, tailVars>>

NextJobID ==
    \E t \in 0..MaxNano, name \in JobNames, sch \in AddSchedules, ok \in BOOLEAN :
        AddJobAt(t, name, sch, ok)

InitJobID ==
    InitBusWith({BufferSize}) /\ InitAgentWith({1}, 0) /\ InitStream
    /\ InitCronWith({[kind |-> "missing", value |-> NullJSON]}) /\ InitAux

SpecJobID == InitJobID /\ [][NextJobID]_vars

(***************************************************************************)
(* session: AddMessage calls on the sessions of one Manager                *)
(***************************************************************************)
\* the n-th turn handed to AddMessage: user and assistant turns alternate and
\* every turn has its own text
NthTurn(n) == Turn(IF n % 2 = 1 THEN "user" ELSE "assistant", "t" \o ToString(n))

\* one call of Session.AddMessage on the session of key k
SessionAppend(k) ==
    /\ Len(appended[k]) < MaxAppends
    /\ LET t == NthTurn(Len(appended[k]) + 1) IN
       /\ sessions' = [sessions EXCEPT ![k] = AddMessage(@, t.Role, t.Content)]
       /\ appended' = [appended EXCEPT ![k] = Append(@, t)]
    /\ UNCHANGED <<cfgIterations, maxIterations, vary, files, pc, msg, iter, messages, content,
                   toolCalls, tcIdx, finalContent, err, snap, ret, nPublished, nDirect,
                   nStreams, okCalls, busVars, streamVars, cronVars, auxVars, moreVars>>

NextSession == \E k \in SessionKeys : SessionAppend(k)

InitSession ==
    InitBusWith({BufferSize}) /\ InitAgentWith({1}, 0) /\ InitStream
    /\ InitCronWith({[kind |-> "missing", value |-> NullJSON]}) /\ InitAux

SpecSession == InitSession /\ [][NextSession]_vars

(***************************************************************************)
(* Properties                                                              *)
(***************************************************************************)

\* goroutine p is between its first ProcessMessage step and the return
InProgress(p) ==
    pc[p] \in {"loop", "tools", "reply", "addUserW", "addAsstR", "addAsstW", "save"}

\* C1: records of one session are handled one at a time: while one record of
\* a session is being processed (its turns are not yet stored, its reply not yet
\* produced), no other goroutine has taken a processing step for a record of
\* the same session.
C1_OneRecordAtATimePerSession ==
    \A p, q \in Procs :
        p # q /\ InProgress(p) /\ InProgress(q) => Key(p) # Key(q)

\* the complete argument text the stream carried for the call with this id
StreamedArguments(id) == builders[IndexOf(id)].Arguments

\* C2: every argument value handed to a tool executor is the parse of the
\* complete argument text the model emitted for that call, or the empty object.
C2_ExecutorGetsCompleteParseOrEmpty ==
    \A i \in 1..Len(executed) :
        \/ executed[i].args = EmptyObject
        \/ /\ JSONValid(StreamedArguments(executed[i].id))
           /\ executed[i].args = ParseArgs(StreamedArguments(executed[i].id))

\* C3: the argument text the agent collects for a tool call is the
\* concatenation, in arrival order, of all fragments of that call's index.
C3_CollectedArgumentsAreAllFragments ==
    \A i \in 1..Len(hToolCalls) :
        hToolCalls[i].Arguments = StreamedArguments(hToolCalls[i].ID)

EventsOf(kind, idx) ==
    {j \in 1..Len(events) : events[j].kind = kind /\ events[j].idx = idx}

\* C4: per tool-call index the handler sees exactly one Start, as soon as id
\* and name are both known; every Delta after that Start; and exactly one End
\* at stream end if and only if the accumulated arguments are non-empty.
C4_WellFormedEventSequence ==
    \A i \in Indexes :
        /\ Cardinality(EventsOf("start", i)) =
              IF builders[i].ID # "" /\ builders[i].Name # "" THEN 1 ELSE 0
        /\ \A d \in EventsOf("delta", i) : \E st \in EventsOf("start", i) : st < d
        /\ sPhase \in {"open", "failed"} => EventsOf("end", i) = {}
        /\ sPhase \in {"ended", "executed"} =>
              Cardinality(EventsOf("end", i)) =
                 IF builders[i].Arguments # <<>> THEN 1 ELSE 0

\* the iteration cap the configuration asks for
ConfiguredCap == IF cfgIterations > 0 THEN cfgIterations ELSE 20

\* a bound on the ProcessMessage steps goroutine p still has to take
MaxCalls == CHOOSE n \in 0..8 :
    /\ \A t \in ToolCallLists : Len(t) <= n
    /\ \E t \in ToolCallLists : Len(t) = n

Remaining(p) ==
    LET round == MaxCalls + 2
        left == IF iter[p] < ConfiguredCap THEN ConfiguredCap - iter[p] ELSE 0
    IN CASE pc[p] = "start"    -> 9 + round * ConfiguredCap
         [] pc[p] = "loop"     -> 8 + round * left
         [] pc[p] = "tools"    -> 8 + round * left - 1 - tcIdx[p]
         [] pc[p] = "reply"    -> 7
         [] pc[p] = "addUserW" -> 6
         [] pc[p] = "addAsstR" -> 5
         [] pc[p] = "addAsstW" -> 4
         [] pc[p] = "save"     -> 3
         [] pc[p] = "return"   -> 2
         [] pc[p] = "failed"   -> 2
         [] OTHER              -> 0

\* C5: processing one record starts at most max_iterations model streams (20
\* when no positive value is configured), every step of the processing brings
\* its end nearer, and a call that returns without error returns a reply.
C5_AtMostMaxIterationsStreams ==
    [][\A p \in Procs :
          /\ nStreams'[p] <= ConfiguredCap
          /\ (pc[p] \in {"start", "loop", "tools", "reply", "addUserW", "addAsstR",
                         "addAsstW", "save"}
              /\ <<pc[p], iter[p], tcIdx[p]>> # <<pc'[p], iter'[p], tcIdx'[p]>>)
                => Remaining(p)' < Remaining(p)
          /\ pc'[p] = "return" => finalContent'[p] # ""]_vars

W_C5_CapReachedWithDefault ==
    /\ cfgIterations = 0
    /\ pc["run"] = "return"
    /\ nStreams["run"] = 20
    /\ iter["run"] = 20

\* C6: when the cap is reached while the model still emits tool calls, the
\* reply is the content collected in the last iteration whenever it is non-empty.
C6_CapReplyIsLastContent ==
    \A p \in Procs :
        (pc[p] = "return" /\ iter[p] >= maxIterations /\ content[p] # "")
            => finalContent[p] = content[p]

\* no goroutine is between the first AddMessage and the Save of a call on k
Settled(k) ==
    \A p \in Procs :
        pc[p] \in {"addUserW", "addAsstR", "addAsstW", "save"} => Key(p) # k

\* C7: every process call that succeeds adds exactly two turns to its session
\* and persists them; a call that aborts adds none.
C7_TwoTurnsPerSuccessfulCall ==
    \A k \in SessionKeys :
        Settled(k) => /\ Len(sessions[k]) = Min(2 * okCalls[k], HistoryLimit)
                      /\ files[k] = sessions[k]

\* Run moves on from a failed ProcessMessage call
RunLeavesFailed == pc["run"] = "failed" /\ pc'["run"] # "failed"

\* the error outbound Run is to publish for the failed call
ExpectedErrorOutbound ==
    [Channel |-> msg["run"].Channel, ChatID |-> msg["run"].ChatID,
     Content |-> "Error: " \o err["run"]]

ToolFailureTexts(tc) ==
    IF tc.Name \notin Registered
    THEN {"Error: tool not found: " \o tc.Name}
    ELSE IF ~JSONValid(tc.Arguments) \/ tc.Arguments = <<"{", "}">>
         THEN {"Invalid parameters: missing required parameter: path"}
         ELSE IF \E i \in 1..Len(tc.Arguments) : tc.Arguments[i] = "n"
              THEN {"Invalid parameters: path should be string"}
              ELSE {"[FILE] x", "Error: failed to read directory"}

\* C9: no tool-level failure aborts the processing of a message; an unknown
\* tool, arguments that fail validation and an executor error each append one
\* text tool result for the call, and the iteration goes on.
C9_ToolFailuresBecomeToolResults ==
    [][\A p \in Procs :
          (pc[p] = "tools" /\ <<pc[p], tcIdx[p]>> # <<pc'[p], tcIdx'[p]>>) =>
             LET tc == toolCalls[p][tcIdx[p]]
                 last == messages'[p][Len(messages'[p])]
             IN /\ Len(messages'[p]) = Len(messages[p]) + 1
                /\ SubSeq(messages'[p], 1, Len(messages[p])) = messages[p]
                /\ last.Role = "tool"
                /\ last.ToolCallID = tc.ID
                /\ last.Content \in ToolFailureTexts(tc)
                /\ pc'[p] \in {"tools", "loop"}
                /\ err'[p] = ""]_vars

W_C9_FailuresFedBackAndLoopGoesOn ==
    \E p \in Procs :
        /\ pc[p] = "loop"
        /\ iter[p] > 0
        /\ \E i, j \in 1..Len(messages[p]) :
              /\ messages[p][i].Content = "Error: failed to read directory"
              /\ messages[p][j].Content = "Error: tool not found: nope"

\* the queue a publish call went to, before and after the call
PublishedQueue == IF lastPub'.queue = "inbound" THEN inbound ELSE outbound
PublishedQueueAfter == IF lastPub'.queue = "inbound" THEN inbound' ELSE outbound'

\* C10: publish_inbound and publish_outbound never wait: on a closed bus the
\* call returns BusClosed; on an open bus whose queue holds `capacity` items
\* it returns BufferFull; in both cases the queue is unchanged; otherwise the
\* item is enqueued.  A publish is possible in every state of the bus.
C10_PublishNeverWaits ==
    [][/\ lastPub'.tick # lastPub.tick =>
            IF closed
            THEN lastPub'.err = "ErrBusClosed" /\ PublishedQueueAfter = PublishedQueue
            ELSE IF Len(PublishedQueue) >= capacity
                 THEN /\ lastPub'.err = "ErrBufferFull"
                      /\ PublishedQueueAfter = PublishedQueue
                 ELSE /\ lastPub'.err = "nil"
                      /\ PublishedQueueAfter = Append(PublishedQueue, lastPub'.item)
       /\ Len(inbound') <= capacity /\ Len(outbound') <= capacity
       /\ \A m \in InboundRecords : ENABLED BusPublishInbound(m)
       /\ \A m \in OutboundSamples : ENABLED BusPublishOutbound(m)]_vars

W_C10_BufferFullReturned ==
    /\ lastPub.queue = "inbound"
    /\ lastPub.err = "ErrBufferFull"
    /\ Len(inbound) = capacity
    /\ ~closed

\* C11: consume_inbound and consume_outbound return in only two ways: with the
\* oldest item published and not yet consumed, or with a cancellation error
\* for a caller whose context is cancelled; never without item and error.
C11_ConsumeReturnsItemOrCancellation ==
    [][lastCons'.tick # lastCons.tick =>
          LET q == IF lastCons'.queue = "inbound" THEN inbound ELSE outbound IN
          \/ /\ lastCons'.err = "nil"
             /\ Len(q) > 0
             /\ lastCons'.item = Head(q)
          \/ /\ lastCons'.err = "context canceled"
             /\ lastCons'.item = NoItem]_vars

\* the handler invocations in progress
Invoking == {id \in JobIDs : workers[id] = "handler" \/ cronRuns[id] = "handler"}

\* Stop has returned, or Start was never called
Stopped == ~running /\ mu = "free"

\* C12: once Stop has returned, and until the next Start, no handler
\* invocation is in progress (so none was left running and none has begun),
\* whatever the schedule type of the job
C12_NoInvocationWhileStopped == Stopped => Invoking = {}

\* C13: a job whose AddJob returned the save error is not in the catalogue
\* (neither ListJobs nor GetJob finds it) and the handler is never invoked for it
C13_FailedAddLeavesNoTrace ==
    \A id \in failedAdds :
        /\ id \notin DOMAIN jobs
        /\ invoked[id] = 0

\* C14: a handler invocation begins only while its job is enabled: none
\* begins for a job between the return of EnableJob(id, false) and the next
\* EnableJob(id, true)
C14_InvocationBeginsOnlyWhileEnabled ==
    [][\A id \in DOMAIN heap : invoked'[id] > invoked[id] => heap[id].Enabled]_vars

\* C15: a Once(t) job is invoked at most once over the life of the scheduler,
\* however often it is stopped and started, and not at all unless t is
\* strictly later than a time at which it was scheduled
C15_OnceFiresAtMostOnceAndOnlyIfLater ==
    \A id \in DOMAIN heap :
        heap[id].Schedule.Type = "once" =>
            /\ invoked[id] <= 1
            /\ invoked[id] > 0 => \E t \in schedAt[id] : heap[id].Schedule.AtMs > t

\* C16: an Every job whose interval is zero or negative is never scheduled:
\* the handler is never invoked for it, and AddJob on a running scheduler and
\* Start go through without the process dying of it, so other jobs keep firing
C16_NonPositiveEveryIsHarmless ==
    \A id \in DOMAIN heap :
        heap[id].Schedule.Type = "every" /\ heap[id].Schedule.EveryMs <= 0 =>
            /\ invoked[id] = 0
            /\ crashed = ""

\* C17: whatever jobs.json holds (nothing, arbitrary bytes, JSON null, a map
\* with null entries), the scheduler built over it is usable: AddJob,
\* ListJobs, Start and Status after NewService return instead of dying of a
\* nil map or a nil Job
C17_UnusableStoreGivesUsableCatalogue ==
    crashed \notin {"assignment to entry in nil map", "nil pointer dereference"}

\* the catalogue a fresh scheduler gets from the file as it is now
Reloaded == ListJobs(Load(store).jobs, Load(store).heap)

\* C18: as long as every write of jobs.json by AddJob, RemoveJob and
\* EnableJob has succeeded, a fresh scheduler over the same file lists the
\* same set of (id, name, schedule, enabled) tuples as this one
C18_ReloadListsTheSameJobs ==
    allSaved /\ crashed = "" => Reloaded = ListJobs(jobs, heap)

\* an added job was disabled and saved, next to the job found in the file
W_C18_AddedAndDisabledJobSaved ==
    /\ allSaved /\ crashed = ""
    /\ cronRet.op = "EnableJob"
    /\ jobs # NilMap /\ DOMAIN jobs = {"j0", "j1"}
    /\ jobs["j0"] # NilPtr /\ ~heap["j1"].Enabled
    /\ heap["j1"].Schedule.Type = "every"

\* the handler run of job id returns in this step
Returns(id) ==
    \/ workers[id] = "handler" /\ workers'[id] # "handler"
    \/ cronRuns[id] = "handler" /\ cronRuns'[id] # "handler"

\* C19: each time a job fires and its agent pass returns a reply text, one
\* outbound message with that text goes to (payload.channel, payload.to) when
\* payload.deliver is set, and none when it is not
C19_DeliverEmitsOneOutbound ==
    [][\A id \in DOMAIN heap :
          Returns(id) /\ cronRet'.err = "" =>
              outbound' = IF heap[id].Payload.Deliver
                          THEN Append(outbound,
                                      NewOutboundMessage(heap[id].Payload.Channel,
                                                         heap[id].Payload.To, cronRet'.text))
                          ELSE outbound]_vars

\* C20: from an empty session, after n AddMessage calls the stored list is
\* exactly the last min(n, 50) appended turns, in the order they were appended
C20_StoredTurnsAreTheLastFifty ==
    \A k \in SessionKeys :
        LET n == Len(appended[k])
            kept == Min(n, HistoryLimit) IN
        /\ Len(sessions[k]) = kept
        /\ \A i \in 1..kept : sessions[k][i] = appended[k][n - kept + i]

\* C27: with maxToolIterations configured as 0, processing a message starts
\* no model stream and its reply is the placeholder text
C27_CapZeroEmitsPlaceholder ==
    cfgIterations = 0 =>
        \A p \in Procs :
            /\ nStreams[p] = 0
            /\ pc[p] = "return" => finalContent[p] = Placeholder

\* C21: a turn appended to a session is durable: once AddMessage has
\* returned, the session file holds the turn (as long as the 50-turn window
\* keeps it), so that a Manager built afresh over the workspace returns it
C21_AppendedTurnIsDurable ==
    \A k \in SessionKeys :
        \A i \in DOMAIN appended[k] :
            i > Len(appended[k]) - HistoryLimit =>
                \E j \in DOMAIN files[k] : files[k][j] = appended[k][i]

\* the jobs RemoveJob has returned true for
Removed == {id \in DOMAIN heap : id \notin DOMAIN jobs /\ id \notin failedAdds}

\* C30: once RemoveJob(id) has returned true no handler invocation begins for
\* that job, running or not, whatever its schedule type
C30_NoInvocationAfterRemove ==
    [][\A id \in Removed : invoked'[id] = invoked[id]]_vars

Beneath(s, root) == HasPrefix(Split(s), Split(root))

\* C22: while the sandbox root is set, a file tool touches a path only if the
\* path's absolute form is the root or lies beneath the root.
C22_FileToolsStayBeneathRoot ==
    allowedDir # <<>> /\ toolRun.tool \in FileTools
        => \A t \in toolRun.touched : Beneath(t, Abs(allowedDir))

\* C25: a message tool call without channel and chat_id, made while the
\* inbound of (c, chat) is processed, invokes the sender with (c, chat); a
\* call that supplies both invokes it with the supplied values.
C25_MessageGoesToCurrentChat ==
    toolRun.tool = "message" =>
        /\ toolRun.arg = <<"", "">> => toolRun.sent = {toolRun.during}
        /\ toolRun.arg[1] # "" /\ toolRun.arg[2] # "" => toolRun.sent = {toolRun.arg}

\* C28: every text a tool execution returns without an error is non-empty and
\* at most 10 KiB plus the truncation marker long.
C28_ToolTextIsBoundedAndNonEmpty ==
    toolRun.tool # "" /\ toolRun.err = ""
        => toolRun.size > 0 /\ toolRun.size <= MaxOutputSize + TruncationMarkerLen

\* C23: with a non-empty allow-list, a message is handed to the bus only if
\* the sender's id, username or label is an entry of the list.
C23_OnlyAllowedSendersReachTheBus ==
    allowFrom # {} /\ handled # NoHandled => handled.ids \cap allowFrom # {}

\* C24: with allow_self on, no fromMe message is handed on whose chat and text
\* are those of an outbound given to the bridge within the 45 s before it.
C24_EchoesAreDropped ==
    allowSelf /\ handled.channel = "whatsapp" /\ handled.fromMe
        => ~\E o \in written : /\ o.chatID = handled.chat
                               /\ o.text = handled.text
                               /\ o.at <= handled.at
                               /\ handled.at - o.at <= EchoWindow

\* C26: once the context handed to Run is cancelled, Run returns after a
\* bounded number of steps, whatever the inbound queue holds and whether or
\* not a message is being processed.
C26_RunReturnsAfterCancel == ctxDone ~> pc["run"] = "done"

\* Run has returned after a cancellation although records were still queued
W_C26_ReturnedWithRecordsQueued ==
    ctxDone /\ pc["run"] = "done" /\ Len(inbound) > 0

\* the schedules of job id that are live: its entries in the cron engine and
\* its timer goroutine
ActiveSchedules(id) ==
    cronEntries[id] + (IF workers[id] \in {"new", "wait", "call", "handler", "blocked"} THEN 1 ELSE 0)

\* C31: after any sequence of Start and Stop calls a job of the catalogue has
\* at most one active schedule while the scheduler runs, so that one schedule
\* instant leads to at most one handler invocation.
C31_OneScheduleAfterRestarts ==
    running /\ jobs # NilMap =>
        \A k \in DOMAIN jobs : jobs[k] # NilPtr => ActiveSchedules(jobs[k]) <= 1

\* C32: while the scheduler runs, a job enabled through EnableJob(id, true)
\* is scheduled: a running scheduler holds a schedule for every enabled job
\* whose schedule has instants to come (here: the cron jobs).
C32_EnabledJobIsScheduled ==
    running /\ crashed = "" /\ jobs # NilMap =>
        \A k \in DOMAIN jobs :
            jobs[k] # NilPtr /\ heap[jobs[k]].Enabled /\ heap[jobs[k]].Schedule.Type = "cron"
                => ActiveSchedules(jobs[k]) >= 1

\* C40: every successful AddJob returns a job whose id is the id of no job
\* that was in the catalogue before the call.
C40_AddedIdIsNew ==
    [][cronRet'.op = "AddJob" /\ cronRet'.err = "" => cronRet'.id \notin DOMAIN jobs]_vars

\* C33: the tool calls of one response are executed, and their results
\* appended, in ascending order of their stream index.
C33_CallsExecutedInStreamOrder ==
    \A i, j \in DOMAIN executed :
        i < j => IndexOf(executed[i].id) < IndexOf(executed[j].id)

\* C34: ProcessDirect appends its turns to the session that its sessionKey
\* argument names (and to no other).
C34_DirectUsesTheGivenSession ==
    [][\A k \in SessionKeys : appended'[k] # appended[k] => k = directKey]_vars

\* C36, as stated: a publish that races with Close either enqueues its item
\* or returns ErrBusClosed.
C36_RacingPublishEnqueuesOrIsRefused ==
    [][lastPub'.tick # lastPub.tick /\ lastRaced' => lastPub'.err \in {"nil", "ErrBusClosed"}]_vars

\* C36, amended: Close may be called again and beside publishes: a Close on
\* a closed bus changes nothing; no publish panics; a publish returns
\* ErrBusClosed exactly when the bus was closed before it, and otherwise
\* enqueues its item or, on a full buffer, returns ErrBufferFull.
C36_CloseIsIdempotentAndPublishNeverPanics ==
    [][/\ busCrash' = ""
       /\ nCloses' # nCloses /\ closed => UNCHANGED <<inbound, outbound, closed, capacity>>
       /\ lastPub'.tick # lastPub.tick =>
             /\ lastPub'.err \in {"nil", "ErrBufferFull", "ErrBusClosed"}
             /\ lastPub'.err = "ErrBusClosed" <=> closed
             /\ lastPub'.err = "nil" => inbound' = Append(inbound, lastPub'.item)
             /\ lastPub'.err # "nil" => inbound' = inbound]_vars

\* a publish that raced with a Close was enqueued, then the bus was closed
\* and closed again, and a later publish was refused
W_C36_RacedThenClosedTwice ==
    closed /\ nCloses >= 2 /\ lastPub.err = "ErrBusClosed" /\ Len(inbound) > 0

\* C37: on shutdown, under every interleaving of the gateway's Stop calls with
\* the adapters' own goroutines, the process does not crash.
C37_ShutdownDoesNotCrash == stopCrash = ""

\* the open connections of a chat id that addClient has registered
OpenConns(chatID) ==
    {c \in Conns : wsChat[c] = chatID /\ wsOpen[c] /\ wsPc[c] \in {"reading", "ended"}}

\* C38: a chat id with at least one open connection maps to the most recently
\* opened of them; the end of an older connection's reader does not remove the
\* newer connection.
C38_ChatMapsToNewestOpenConnection ==
    \A k \in WsChats :
        OpenConns(k) # {} =>
            /\ clients[k] \in OpenConns(k)
            /\ \A c \in OpenConns(k) : c <= clients[k]

\* C39: after startup no operation, an agent pass started by the scheduler
\* included, writes the sandbox root again, and its value does not change.
C39_SandboxRootWrittenOnce == [][dirWrites' = dirWrites /\ allowedDir' = allowedDir]_vars

\* C35: a read of the scheduler's job state holds the shared lock, so the test
\* of the running flag and of job.Enabled that lets a job's goroutine go on to
\* the handler is never made while another operation holds the exclusive lock.
C35_StateIsReadUnderTheLock ==
    [][\A id \in JobIDs : workers[id] = "wait" /\ workers'[id] = "call" => mu = "free"]_vars

====
